---- MODULE Spec2Model ----
(***************************************************************************)
(* A model of the Flight WIT processor (wit-processor crate): the report   *)
(* types of types.rs, the validator of validator.rs, the batch operations  *)
(* of batch.rs / parser.rs and the compatibility analyzer of lib.rs.       *)
(*                                                                         *)
(* Names (Rust String) are sequences of one-character strings, so that     *)
(* the character tests of the validator can be computed.  Option<T> is a   *)
(* sequence of length 0 (None) or 1 (Some).  Vec<T> is a sequence.         *)
(***************************************************************************)
EXTENDS Integers, Sequences, FiniteSets, TLC

VARIABLES
    report,      \* a ValidationReport driven through its own methods
    vdoc,        \* the WitDocument handed to the validators
    vresults,    \* preset -> the report WitValidator::validate returned, or <<>>
    dir,         \* the files of the directory, in the order WalkDir yields them
    batch,       \* the BatchValidationReport last built, as <<r>>, or <<>>
    oldDoc,      \* check_compatibility's old_document
    newDoc,      \* check_compatibility's new_document
    steps,       \* number of edits and report calls made so far
    compat,      \* a CompatibilityReport
    checked,     \* compat is what check_compatibility(oldDoc, newDoc) returned
    ddoc,        \* the WitDocument handed to extract_type_dependencies
    graph,       \* the TypeDependencyGraph it returned, as <<g>>, or <<>>
    run,         \* the frame of the parse_file / memory_constrained_validate call
    events,      \* the file operations made so far, as [op, path]
    par,         \* a batch_process_parallel call: its paths, items and result
    cli,         \* the last run of the validate command: its arguments and exit code
    session,     \* a session: its SessionState and the states it went through
    xref,        \* the issues TypeReferenceValidator returned for ddoc, as <<issues>>
    mem,         \* the process-wide MemoryValidator behind its mutex, and its callers
    calls        \* the add_dependency calls made on graph, in call order

base == <<report, vdoc, vresults, dir, batch, oldDoc, newDoc, steps, compat, checked>>
depVars == <<ddoc, graph>>
stepVars == <<run, events>>
lateVars == <<cli, session, xref, mem, calls>>
ext == <<depVars, stepVars, par, lateVars>>
vars == <<base, ext>>

----------------------------------------------------------------------------
(* Generic helpers *)

None == <<>>
Some(x) == <<x>>
IsSome(o) == Len(o) > 0

RECURSIVE SumSeq(_)
SumSeq(s) == IF s = <<>> THEN 0 ELSE Head(s) + SumSeq(Tail(s))

RECURSIVE Flatten(_)
\* concatenation of a sequence of sequences
Flatten(ss) == IF ss = <<>> THEN <<>> ELSE Head(ss) \o Flatten(Tail(ss))

\* Body applied to the value of e
With(e, Body(_)) == CHOOSE out \in {Body(x) : x \in {e}} : TRUE

\* Step folded over the elements of s from init, left to right
Fold(s, init, Step(_, _)) ==
    LET RECURSIVE go(_, _)
        go(i, acc) ==
            IF i > Len(s) THEN acc
            ELSE With(Step(acc, s[i]), LAMBDA a : go(i + 1, a))
    IN  go(1, init)

KeyOrders(S) ==
    \* all orders in which a HashMap may yield the keys S
    {p \in [1..Cardinality(S) -> S] : \A i, j \in 1..Cardinality(S) : p[i] = p[j] => i = j}

----------------------------------------------------------------------------
(* types.rs: ValidationIssue and ValidationReport *)

\* ValidationIssue::error / warning / info followed by with_location:
\* the message is format!(..) of the code's text and args.
Issue(sev, code, args, path) ==
    [severity |-> sev, code |-> code, args |-> args, path |-> path]

\* ValidationReport::new
NewValidationReport ==
    [is_valid |-> TRUE, errors |-> <<>>, warnings |-> <<>>, info |-> <<>>]

\* ValidationReport::add_error
ReportAddError(r, issue) ==
    [r EXCEPT !.is_valid = FALSE, !.errors = Append(@, issue)]

\* add_warning as it would be if a warning cleared the flag too
ReportAddWarningInvalidates(r, issue) ==
    [r EXCEPT !.is_valid = FALSE, !.warnings = Append(@, issue)]

\* ValidationReport::add_warning
ReportAddWarning(r, issue) == [r EXCEPT !.warnings = Append(@, issue)]

\* ValidationReport::add_info
ReportAddInfo(r, issue) == [r EXCEPT !.info = Append(@, issue)]

\* ValidationReport::is_valid()
IsValid(r) == r.is_valid /\ r.errors = <<>>

\* ValidationReport::total_issues
TotalIssues(r) == Len(r.errors) + Len(r.warnings) + Len(r.info)

----------------------------------------------------------------------------
(* types.rs: the document model *)

\* WitType { name, kind }
Ty(name, kind) == [name |-> name, kind |-> kind]

\* WitTypeKind, one constructor per variant
Primitive(s) == [tag |-> "Primitive", name |-> s]
Reference(s) == [tag |-> "Reference", name |-> s]
ListOf(t) == [tag |-> "List", elem |-> t]
OptionOf(t) == [tag |-> "Option", elem |-> t]
ResultOf(ok, err) == [tag |-> "Result", ok |-> ok, err |-> err]
TupleOf(ts) == [tag |-> "Tuple", elems |-> ts]
RecordOf(fs) == [tag |-> "Record", fields |-> fs]
VariantOf(cs) == [tag |-> "Variant", cases |-> cs]
EnumOf(vs) == [tag |-> "Enum", values |-> vs]

\* WitField, WitVariantCase, WitParameter
Field(n, t) == [name |-> n, field_type |-> t]
Case(n, p) == [name |-> n, payload |-> p]
Param(n, t) == [name |-> n, param_type |-> t]

\* WitFunction
Func(n, ps, ret) == [name |-> n, parameters |-> ps, return_type |-> ret]

\* WitInterface
Iface(n, fs, ts, doc) ==
    [name |-> n, functions |-> fs, types |-> ts, documentation |-> doc]

\* WitWorld
World(n, imps, exps) == [name |-> n, imports |-> imps, exports |-> exps]

\* WitDocument (imports, exports, raw_content and parsed_at are never read
\* by the operations modelled here)
Doc(path, pkg, ver, ifaces, worlds, size, ms) ==
    [path |-> path, package_name |-> pkg, package_version |-> ver,
     interfaces |-> ifaces, worlds |-> worlds,
     file_size |-> size, parse_duration_ms |-> ms]

----------------------------------------------------------------------------
(* validator.rs: WitValidator *)

Lower == {"a","b","c","d","e","f","g","h","i","j","k","l","m",
          "n","o","p","q","r","s","t","u","v","w","x","y","z"}
Upper == {"A","B","C","D","E","F","G","H","I","J","K","L","M",
          "N","O","P","Q","R","S","T","U","V","W","X","Y","Z"}
Digit == {"0","1","2","3","4","5","6","7","8","9"}

\* char::is_ascii_alphabetic, char::is_ascii_alphanumeric
IsAsciiAlphabetic(ch) == ch \in Lower \cup Upper
IsAsciiAlphanumeric(ch) == ch \in Lower \cup Upper \cup Digit

\* WitValidator::new
ValidatorNew ==
    [strict_naming |-> FALSE, platform_checks |-> TRUE,
     dependency_validation |-> TRUE, performance_checks |-> TRUE,
     max_type_depth |-> 10, max_function_params |-> 20]

\* WitValidator::strict
ValidatorStrict ==
    [ValidatorNew EXCEPT !.strict_naming = TRUE, !.max_type_depth = 5,
                         !.max_function_params = 10]

\* WitValidator::lenient
ValidatorLenient ==
    [ValidatorNew EXCEPT !.strict_naming = FALSE, !.platform_checks = FALSE,
                         !.performance_checks = FALSE, !.max_type_depth = 20,
                         !.max_function_params = 50]

\* WitValidator::is_valid_identifier
IsValidIdentifier(name) ==
    /\ name # <<>>
    /\ IsAsciiAlphabetic(name[1]) \/ name[1] = "_"
    /\ \A i \in 2..Len(name) :
          IsAsciiAlphanumeric(name[i]) \/ name[i] = "_" \/ name[i] = "-"

\* WitValidator::is_valid_package_name: split at the first ':'
IsValidPackageName(name) ==
    LET colons == {i \in 1..Len(name) : name[i] = ":"} IN
    IF colons = {} THEN FALSE
    ELSE LET colon_pos == CHOOSE i \in colons : \A j \in colons : i <= j IN
         /\ IsValidIdentifier(SubSeq(name, 1, colon_pos - 1))
         /\ IsValidIdentifier(SubSeq(name, colon_pos + 1, Len(name)))

\* the position-i element repeats an earlier one: !HashSet::insert(..)
SeenBefore(keys, i) == \E j \in 1..(i - 1) : keys[j] = keys[i]

LargeFileBytes == 1048576
SlowParseMs == 1000
DeepNestingThreshold == 5

\* WitValidator::validate_document_structure
ValidateDocumentStructure(v, doc, r) ==
    LET r1 == IF doc.interfaces = <<>> /\ doc.worlds = <<>>
              THEN ReportAddWarning(r, Issue("Warning", "EMPTY_DOCUMENT", <<>>, doc.path))
              ELSE r
        r2 == IF doc.file_size > LargeFileBytes
              THEN ReportAddWarning(r1, Issue("Warning", "LARGE_FILE",
                                              <<doc.file_size \div 1024>>, doc.path))
              ELSE r1
    IN  IF doc.parse_duration_ms > SlowParseMs
        THEN ReportAddInfo(r2, Issue("Info", "SLOW_PARSE",
                                     <<doc.parse_duration_ms>>, doc.path))
        ELSE r2

\* WitValidator::validate_package
ValidatePackage(v, doc, r) ==
    LET r1 == IF v.strict_naming /\ ~IsValidPackageName(doc.package_name)
              THEN ReportAddError(r, Issue("Error", "INVALID_PACKAGE_NAME",
                                           <<doc.package_name>>, doc.path))
              ELSE r
    IN  IF ~IsSome(doc.package_version)
        THEN ReportAddWarning(r1, Issue("Warning", "MISSING_VERSION", <<>>, doc.path))
        ELSE r1

\* WitValidator::validate_function
ValidateFunction(v, doc, function, r) ==
    LET ps == function.parameters
        names == [i \in 1..Len(ps) |-> ps[i].name]
        r1 == IF v.strict_naming /\ ~IsValidIdentifier(function.name)
              THEN ReportAddError(r, Issue("Error", "INVALID_FUNCTION_NAME",
                                           <<function.name>>, doc.path))
              ELSE r
        r2 == IF Len(ps) > v.max_function_params
              THEN ReportAddWarning(r1, Issue("Warning", "TOO_MANY_PARAMETERS",
                       <<function.name, Len(ps), v.max_function_params>>, doc.path))
              ELSE r1
        RECURSIVE params(_, _)
        params(i, acc) ==
            IF i > Len(ps) THEN acc
            ELSE LET a1 == IF SeenBefore(names, i)
                           THEN ReportAddError(acc, Issue("Error", "DUPLICATE_PARAMETER",
                                    <<function.name, ps[i].name>>, doc.path))
                           ELSE acc
                     a2 == IF v.strict_naming /\ ~IsValidIdentifier(ps[i].name)
                           THEN ReportAddError(a1, Issue("Error", "INVALID_PARAMETER_NAME",
                                    <<ps[i].name>>, doc.path))
                           ELSE a1
                 IN params(i + 1, a2)
    IN  params(1, r2)

RECURSIVE ValidateType(_, _, _, _, _)
RECURSIVE ValidateTypes(_, _, _, _, _)

\* the "for x in xs { self.validate_type(.., x, .., depth) }" loops
ValidateTypes(v, doc, ts, r, depth) ==
    IF ts = <<>> THEN r
    ELSE ValidateTypes(v, doc, Tail(ts), ValidateType(v, doc, Head(ts), r, depth), depth)

\* WitValidator::validate_record_type
ValidateRecordType(v, doc, wit_type, fields, r, depth) ==
    LET names == [i \in 1..Len(fields) |-> fields[i].name]
        r1 == IF fields = <<>>
              THEN ReportAddWarning(r, Issue("Warning", "EMPTY_RECORD",
                                             <<wit_type.name>>, doc.path))
              ELSE r
        RECURSIVE loop(_, _)
        loop(i, acc) ==
            IF i > Len(fields) THEN acc
            ELSE LET a1 == IF SeenBefore(names, i)
                           THEN ReportAddError(acc, Issue("Error", "DUPLICATE_FIELD",
                                    <<wit_type.name, fields[i].name>>, doc.path))
                           ELSE acc
                     a2 == IF v.strict_naming /\ ~IsValidIdentifier(fields[i].name)
                           THEN ReportAddError(a1, Issue("Error", "INVALID_FIELD_NAME",
                                    <<fields[i].name>>, doc.path))
                           ELSE a1
                 IN loop(i + 1, ValidateType(v, doc, fields[i].field_type, a2, depth + 1))
    IN  loop(1, r1)

\* WitValidator::validate_variant_type
ValidateVariantType(v, doc, wit_type, cases, r, depth) ==
    LET names == [i \in 1..Len(cases) |-> cases[i].name]
        r1 == IF cases = <<>>
              THEN ReportAddError(r, Issue("Error", "EMPTY_VARIANT",
                                           <<wit_type.name>>, doc.path))
              ELSE r
        RECURSIVE loop(_, _)
        loop(i, acc) ==
            IF i > Len(cases) THEN acc
            ELSE LET a1 == IF SeenBefore(names, i)
                           THEN ReportAddError(acc, Issue("Error", "DUPLICATE_CASE",
                                    <<wit_type.name, cases[i].name>>, doc.path))
                           ELSE acc
                     a2 == IF v.strict_naming /\ ~IsValidIdentifier(cases[i].name)
                           THEN ReportAddError(a1, Issue("Error", "INVALID_CASE_NAME",
                                    <<cases[i].name>>, doc.path))
                           ELSE a1
                 IN loop(i + 1, ValidateTypes(v, doc, cases[i].payload, a2, depth + 1))
    IN  loop(1, r1)

\* WitValidator::validate_enum_type
ValidateEnumType(v, doc, wit_type, values, r) ==
    LET r1 == IF values = <<>>
              THEN ReportAddError(r, Issue("Error", "EMPTY_ENUM",
                                           <<wit_type.name>>, doc.path))
              ELSE r
        RECURSIVE loop(_, _)
        loop(i, acc) ==
            IF i > Len(values) THEN acc
            ELSE LET a1 == IF SeenBefore(values, i)
                           THEN ReportAddError(acc, Issue("Error", "DUPLICATE_ENUM_VALUE",
                                    <<wit_type.name, values[i]>>, doc.path))
                           ELSE acc
                     a2 == IF v.strict_naming /\ ~IsValidIdentifier(values[i])
                           THEN ReportAddError(a1, Issue("Error", "INVALID_ENUM_VALUE",
                                    <<values[i]>>, doc.path))
                           ELSE a1
                 IN loop(i + 1, a2)
    IN  loop(1, r1)

\* WitValidator::validate_type
ValidateType(v, doc, wit_type, r, depth) ==
    IF depth > v.max_type_depth
    THEN ReportAddError(r, Issue("Error", "TYPE_TOO_DEEP",
                                 <<wit_type.name, v.max_type_depth>>, doc.path))
    ELSE
    LET k == wit_type.kind
        r1 == IF v.strict_naming /\ ~IsValidIdentifier(wit_type.name)
              THEN ReportAddError(r, Issue("Error", "INVALID_TYPE_NAME",
                                           <<wit_type.name>>, doc.path))
              ELSE r
    IN  CASE k.tag = "Record" -> ValidateRecordType(v, doc, wit_type, k.fields, r1, depth)
          [] k.tag = "Variant" -> ValidateVariantType(v, doc, wit_type, k.cases, r1, depth)
          [] k.tag = "Enum" -> ValidateEnumType(v, doc, wit_type, k.values, r1)
          [] k.tag = "List" -> ValidateType(v, doc, k.elem, r1, depth + 1)
          [] k.tag = "Option" -> ValidateType(v, doc, k.elem, r1, depth + 1)
          [] k.tag = "Result" ->
                ValidateTypes(v, doc, k.err,
                              ValidateTypes(v, doc, k.ok, r1, depth + 1), depth + 1)
          [] k.tag = "Tuple" -> ValidateTypes(v, doc, k.elems, r1, depth + 1)
          [] OTHER -> r1

\* WitValidator::validate_world
ValidateWorld(v, doc, world, r) ==
    LET r1 == IF v.strict_naming /\ ~IsValidIdentifier(world.name)
              THEN ReportAddError(r, Issue("Error", "INVALID_WORLD_NAME",
                                           <<world.name>>, doc.path))
              ELSE r
    IN  IF world.imports = <<>> /\ world.exports = <<>>
        THEN ReportAddWarning(r1, Issue("Warning", "EMPTY_WORLD", <<world.name>>, doc.path))
        ELSE r1

\* check_interface_duplicates as it would be if it reported every item
\* whose key occurs more than once, the first one too
CheckInterfaceDuplicatesCountsAll(v, doc, interface, r) ==
    LET fkeys == [i \in 1..Len(interface.functions) |->
                     <<"function:">> \o interface.functions[i].name]
        tkeys == [i \in 1..Len(interface.types) |->
                     <<"type:">> \o interface.types[i].name]
        keys == fkeys \o tkeys
        names == [i \in 1..Len(interface.functions) |-> interface.functions[i].name]
                 \o [i \in 1..Len(interface.types) |-> interface.types[i].name]
        RECURSIVE loop(_, _)
        loop(i, acc) ==
            IF i > Len(keys) THEN acc
            ELSE loop(i + 1,
                      IF \E j \in 1..Len(keys) : j # i /\ keys[j] = keys[i]
                      THEN ReportAddError(acc, Issue("Error", "DUPLICATE_NAME",
                               <<interface.name, names[i]>>, doc.path))
                      ELSE acc)
    IN  loop(1, r)

\* WitValidator::check_interface_duplicates: one HashSet of
\* "function:<name>" and "type:<name>" keys
CheckInterfaceDuplicates(v, doc, interface, r) ==
    LET fkeys == [i \in 1..Len(interface.functions) |->
                     <<"function:">> \o interface.functions[i].name]
        tkeys == [i \in 1..Len(interface.types) |->
                     <<"type:">> \o interface.types[i].name]
        keys == fkeys \o tkeys
        names == [i \in 1..Len(interface.functions) |-> interface.functions[i].name]
                 \o [i \in 1..Len(interface.types) |-> interface.types[i].name]
        RECURSIVE loop(_, _)
        loop(i, acc) ==
            IF i > Len(keys) THEN acc
            ELSE loop(i + 1,
                      IF SeenBefore(keys, i)
                      THEN ReportAddError(acc, Issue("Error", "DUPLICATE_NAME",
                               <<interface.name, names[i]>>, doc.path))
                      ELSE acc)
    IN  loop(1, r)

\* WitValidator::validate_interface
ValidateInterface(v, doc, interface, r) ==
    LET r1 == IF v.strict_naming /\ ~IsValidIdentifier(interface.name)
              THEN ReportAddError(r, Issue("Error", "INVALID_INTERFACE_NAME",
                                           <<interface.name>>, doc.path))
              ELSE r
        r2 == IF interface.functions = <<>> /\ interface.types = <<>>
              THEN ReportAddWarning(r1, Issue("Warning", "EMPTY_INTERFACE",
                                              <<interface.name>>, doc.path))
              ELSE r1
        RECURSIVE funcs(_, _)
        funcs(i, acc) ==
            IF i > Len(interface.functions) THEN acc
            ELSE funcs(i + 1, ValidateFunction(v, doc, interface.functions[i], acc))
        r3 == funcs(1, r2)
        r4 == ValidateTypes(v, doc, interface.types, r3, 0)
    IN  CheckInterfaceDuplicates(v, doc, interface, r4)

\* WitValidator::validate_cross_references: the body is a TODO, it adds nothing
ValidateCrossReferences(v, doc, r) == r

\* WitValidator::validate_cross_document_dependencies: a TODO as well
ValidateCrossDocumentDependencies(v, docs, r) == r

\* the types of all interfaces, in declaration order
AllTypes(doc) ==
    Flatten([i \in 1..Len(doc.interfaces) |-> doc.interfaces[i].types])

\* WitValidator::validate_platform_constraints
ValidatePlatformConstraints(v, doc, r) ==
    LET ts == AllTypes(doc)
        RECURSIVE loop(_, _)
        loop(i, acc) ==
            IF i > Len(ts) THEN acc
            ELSE loop(i + 1,
                      IF ts[i].kind.tag = "List"
                      THEN ReportAddInfo(acc, Issue("Info", "UNBOUNDED_LIST",
                                                    <<ts[i].name>>, doc.path))
                      ELSE acc)
    IN  loop(1, r)

MaxOf(S) == IF S = {} THEN 0 ELSE CHOOSE m \in S : \A x \in S : x <= m

RECURSIVE CalculateTypeDepth(_)
\* WitValidator::calculate_type_depth
CalculateTypeDepth(k) ==
    CASE k.tag \in {"Primitive", "Reference", "Enum"} -> 1
      [] k.tag \in {"List", "Option"} -> 1 + CalculateTypeDepth(k.elem.kind)
      [] k.tag = "Result" ->
            1 + MaxOf({CalculateTypeDepth(k.ok[i].kind) : i \in 1..Len(k.ok)}
                      \cup {CalculateTypeDepth(k.err[i].kind) : i \in 1..Len(k.err)})
      [] k.tag = "Tuple" ->
            1 + MaxOf({CalculateTypeDepth(k.elems[i].kind) : i \in 1..Len(k.elems)})
      [] k.tag = "Record" ->
            1 + MaxOf({CalculateTypeDepth(k.fields[i].field_type.kind) :
                          i \in 1..Len(k.fields)})
      [] k.tag = "Variant" ->
            1 + MaxOf({CalculateTypeDepth(k.cases[i].payload[1].kind) :
                          i \in {j \in 1..Len(k.cases) : IsSome(k.cases[j].payload)}})

\* validate_performance_characteristics as it would be if deep nesting
\* were reported with add_error
ValidatePerformanceAsErrors(v, doc, r) ==
    LET ts == AllTypes(doc)
        RECURSIVE loop(_, _)
        loop(i, acc) ==
            IF i > Len(ts) THEN acc
            ELSE LET depth == CalculateTypeDepth(ts[i].kind) IN
                 loop(i + 1,
                      IF depth > DeepNestingThreshold
                      THEN ReportAddError(acc, Issue("Error", "DEEP_TYPE_NESTING",
                                                       <<ts[i].name, depth>>, doc.path))
                      ELSE acc)
    IN  loop(1, r)

\* WitValidator::validate_performance_characteristics
ValidatePerformanceCharacteristics(v, doc, r) ==
    LET ts == AllTypes(doc)
        RECURSIVE loop(_, _)
        loop(i, acc) ==
            IF i > Len(ts) THEN acc
            ELSE LET depth == CalculateTypeDepth(ts[i].kind) IN
                 loop(i + 1,
                      IF depth > DeepNestingThreshold
                      THEN ReportAddWarning(acc, Issue("Warning", "DEEP_TYPE_NESTING",
                                                       <<ts[i].name, depth>>, doc.path))
                      ELSE acc)
    IN  loop(1, r)

\* WitValidator::validate (no step of it returns Err)
Validate(v, doc) ==
    LET r1 == ValidateDocumentStructure(v, doc, NewValidationReport)
        r2 == ValidatePackage(v, doc, r1)
        RECURSIVE ifaces(_, _)
        ifaces(i, acc) ==
            IF i > Len(doc.interfaces) THEN acc
            ELSE ifaces(i + 1, ValidateInterface(v, doc, doc.interfaces[i], acc))
        r3 == ifaces(1, r2)
        RECURSIVE worlds(_, _)
        worlds(i, acc) ==
            IF i > Len(doc.worlds) THEN acc
            ELSE worlds(i + 1, ValidateWorld(v, doc, doc.worlds[i], acc))
        r4 == worlds(1, r3)
        r5 == ValidateCrossReferences(v, doc, r4)
        r6 == IF v.platform_checks THEN ValidatePlatformConstraints(v, doc, r5) ELSE r5
    IN  IF v.performance_checks THEN ValidatePerformanceCharacteristics(v, doc, r6) ELSE r6

RECURSIVE MergeAll(_, _)
\* the merge loop of validate_all: add_error / add_warning / add_info of
\* every issue of every individual report
MergeAll(r, issues) ==
    IF issues = <<>> THEN r
    ELSE LET x == Head(issues) IN
         MergeAll(CASE x.severity = "Error" -> ReportAddError(r, x)
                    [] x.severity = "Warning" -> ReportAddWarning(r, x)
                    [] OTHER -> ReportAddInfo(r, x),
                  Tail(issues))

\* WitValidator::validate_all
ValidateAll(v, docs) ==
    LET RECURSIVE each(_, _)
        each(i, acc) ==
            IF i > Len(docs) THEN acc
            ELSE With(Validate(v, docs[i]),
                      LAMBDA individual :
                          each(i + 1, MergeAll(acc, individual.errors \o individual.warnings
                                                    \o individual.info)))
        merged == each(1, NewValidationReport)
    IN  IF v.dependency_validation /\ Len(docs) > 1
        THEN ValidateCrossDocumentDependencies(v, docs, merged)
        ELSE merged

----------------------------------------------------------------------------
(* parser.rs: WitParser over a directory.  A file is                       *)
(* [path, wit, size, syntax_ok, doc]: wit says the extension is "wit",     *)
(* syntax_ok whether the external wit-parser accepts the content, and doc  *)
(* is the document extracted from it when it does.                         *)

DefaultMaxFileSize == 10485760

\* WitParser::new
ParserNew == [max_file_size |-> DefaultMaxFileSize, include_raw_content |-> TRUE]

Ok(x) == [ok |-> TRUE, value |-> x]
Err(e) == [ok |-> FALSE, error |-> e]

\* WitParser::parse_file, for a path that exists
ParseFile(parser, f) ==
    IF f.size > parser.max_file_size
    THEN Err([kind |-> "ConfigError", path |-> f.path])
    ELSE IF ~f.syntax_ok
    THEN Err([kind |-> "ParseError", path |-> f.path])
    ELSE Ok([f.doc EXCEPT !.path = f.path, !.file_size = f.size])

\* WitParser::find_wit_files
FindWitFiles(files) == SelectSeq(files, LAMBDA f : f.wit)

\* parse_directory as it would be if the first file that fails to parse
\* ended the call with its error
ParseDirectoryFailFast(parser, isDir, files) ==
    IF ~isDir THEN Err([kind |-> "DirectoryRead", path |-> "dir"])
    ELSE LET wit_files == FindWitFiles(files)
             failed == SelectSeq(wit_files, LAMBDA f : ~ParseFile(parser, f).ok)
         IN  IF failed # <<>> THEN ParseFile(parser, failed[1])
             ELSE Ok([i \in 1..Len(wit_files) |-> ParseFile(parser, wit_files[i]).value])

\* WitParser::parse_directory: a file that fails to parse is reported on
\* stderr and left out of the result
ParseDirectory(parser, isDir, files) ==
    IF ~isDir THEN Err([kind |-> "DirectoryRead", path |-> "dir"])
    ELSE LET wit_files == FindWitFiles(files)
             parsed == SelectSeq(wit_files, LAMBDA f : ParseFile(parser, f).ok)
         IN  Ok([i \in 1..Len(parsed) |-> ParseFile(parser, parsed[i]).value])

MemoryConstrainedMaxFileSize == 1048576

\* WitParser::memory_constrained
ParserMemoryConstrained ==
    [max_file_size |-> MemoryConstrainedMaxFileSize, include_raw_content |-> FALSE]

\* the size test of parse_file as it would be if a file of exactly
\* max_file_size were refused
SizeRejectedAtLimit(parser, file_size) == file_size >= parser.max_file_size

\* the size test of WitParser::parse_file
SizeRejected(parser, file_size) == file_size > parser.max_file_size

\* the end of WitParser::parse_file: Resolve::push_str on the content, then
\* the document built from the package
PushStrAndExtract(f) ==
    IF ~f.syntax_ok
    THEN Err([kind |-> "ParseError", path |-> f.path])
    ELSE Ok([f.doc EXCEPT !.path = f.path, !.file_size = f.size])

\* The frame of a call of parse_file or of memory_constrained_validate that
\* runs step by step: pc is the position in the code, path the argument of
\* parse_file, content whether the file's content is held, queue the
\* wit_files parse_directory still has to parse, documents its Vec, iter
\* the documents the validation loop has not reached, current the document
\* of the iteration, result what the call returned.
Frame(op, pc, parser) ==
    [op |-> op, pc |-> pc, parser |-> parser, path |-> 0, content |-> FALSE,
     queue |-> <<>>, documents |-> <<>>, iter |-> <<>>, current |-> None,
     result |-> None]

\* parse_file returns r: to its caller when it was called directly, into
\* parse_directory's loop otherwise (Ok is pushed, Err is reported on
\* stderr and dropped)
ParseFileReturns(fr, r) ==
    IF fr.op = "parse_file"
    THEN [fr EXCEPT !.pc = "done", !.content = FALSE, !.result = Some(r)]
    ELSE [fr EXCEPT !.pc = "pd_loop", !.content = FALSE,
                    !.documents = IF r.ok THEN Append(@, r.value) ELSE @]

----------------------------------------------------------------------------
(* types.rs: BatchValidationReport; batch.rs: batch_validate_directory *)

\* BatchValidationReport::new
BatchNew(documents, validation) ==
    LET success == IsValid(validation) IN
    [documents |-> documents, validation |-> validation, errors |-> <<>>,
     success |-> success,
     stats |-> [total_files |-> Len(documents),
                successful_files |-> IF success THEN Len(documents) ELSE 0,
                failed_files |-> IF success THEN 0 ELSE Len(documents),
                total_interfaces |->
                    SumSeq([i \in 1..Len(documents) |-> Len(documents[i].interfaces)]),
                total_worlds |->
                    SumSeq([i \in 1..Len(documents) |-> Len(documents[i].worlds)]),
                total_size_bytes |->
                    SumSeq([i \in 1..Len(documents) |-> documents[i].file_size])]]

\* BatchValidationReport::add_error
BatchAddError(b, error) ==
    [b EXCEPT !.success = FALSE,
              !.stats.failed_files = @ + 1,
              !.stats.successful_files = IF @ > 0 THEN @ - 1 ELSE @,
              !.errors = Append(@, error)]

\* batch_validate_directory_with_config (validate_all never returns Err,
\* so the second early return is not taken)
BatchValidateDirectoryWithConfig(isDir, files, parser, validator) ==
    With(ParseDirectory(parser, isDir, files),
         LAMBDA parsed :
             IF ~parsed.ok
             THEN BatchAddError(BatchNew(<<>>, NewValidationReport), parsed.error)
             ELSE With(ValidateAll(validator, parsed.value),
                       LAMBDA validation_report :
                           BatchNew(parsed.value, validation_report)))

\* batch_validate_directory
BatchValidateDirectory(isDir, files) ==
    BatchValidateDirectoryWithConfig(isDir, files, ParserNew, ValidatorNew)

----------------------------------------------------------------------------
(* types.rs: ProcessingReport; batch.rs: parse_and_validate_with_config,   *)
(* batch_process_sequential, batch_process_parallel                        *)

\* ProcessingReport::new
NewProcessingReport(document, validation) ==
    [document |-> document, validation |-> validation,
     success |-> IsValid(validation)]

\* WitParser::parse_file for any path: a path outside files names no file
ParseFileAt(parser, files, path) ==
    IF path \notin 1..Len(files)
    THEN Err([kind |-> "FileRead", path |-> path])
    ELSE ParseFile(parser, files[path])

\* parse_and_validate_with_config
ParseAndValidateWithConfig(files, path, parser, validator) ==
    With(ParseFileAt(parser, files, path),
         LAMBDA document :
            IF ~document.ok THEN document
            ELSE Ok(NewProcessingReport(document.value,
                                        Validate(validator, document.value))))

\* the closure of the batch functions as it would be under map instead of
\* filter_map: a failure stays in the output
MapReport(res) == IF res.ok THEN <<res.value>> ELSE <<res.error>>

\* the closure given to filter_map by batch_process_sequential and
\* batch_process_parallel: Ok(report) => Some(report), Err(e) => None after
\* a warning on stderr
FilterMapReport(res) == IF res.ok THEN <<res.value>> ELSE <<>>

\* batch_process_sequential
BatchProcessSequential(files, paths, parser, validator) ==
    Flatten([i \in 1..Len(paths) |->
                FilterMapReport(ParseAndValidateWithConfig(files, paths[i],
                                                           parser, validator))])

\* batch_process_parallel, the state of a call: every path is an item that
\* some thread of the pool takes and then finishes
ParallelCall(paths) ==
    [paths |-> paths,
     items |-> [i \in 1..Len(paths) |-> [state |-> "todo", out |-> <<>>]],
     result |-> None]

\* batch_process_parallel: collect() on the parallel iterator gathers the
\* outputs of the items in the order of the items
ParCollect(items) == Flatten([i \in 1..Len(items) |-> items[i].out])

----------------------------------------------------------------------------
(* batch.rs: memory_constrained_validate; cli.rs: the validate command *)

\* memory_constrained_validate, from call to return
MemoryConstrainedValidate(isDir, files) ==
    With(ParseDirectory(ParserMemoryConstrained, isDir, files),
         LAMBDA wit_files :
            IF ~wit_files.ok THEN wit_files
            ELSE Ok(\A i \in 1..Len(wit_files.value) :
                       IsValid(Validate(ValidatorLenient, wit_files.value[i]))))

\* the validator run_validate_command builds from --strict and --lenient
SelectedValidator(strict, lenient) ==
    IF strict THEN ValidatorStrict
    ELSE IF lenient THEN ValidatorLenient
    ELSE ValidatorNew

\* run_validate_command as it would be if the file were validated with the
\* validator built from the flags
RunValidateCommandWithPreset(files, path, strict, lenient, max_memory) ==
    IF IsSome(max_memory)
    THEN With(MemoryConstrainedValidate(path = 0, files),
              LAMBDA success :
                 IF ~success.ok THEN success
                 ELSE Ok(IF success.value THEN 0 ELSE 1))
    ELSE IF path \in 1..Len(files)
    THEN With(ParseAndValidateWithConfig(files, path, ParserNew,
                                         SelectedValidator(strict, lenient)),
              LAMBDA rep :
                 IF ~rep.ok THEN rep
                 ELSE Ok(IF rep.value.success THEN 0 ELSE 1))
    ELSE IF path = 0
    THEN Ok(IF BatchValidateDirectoryWithConfig(
                  TRUE, files, ParserNew, SelectedValidator(strict, lenient)).success
            THEN 0 ELSE 1)
    ELSE Err([kind |-> "ConfigError", path |-> path])

\* run_validate_command: path is the index of a file, 0 for the directory
\* or another value for a path that does not exist.  The
\* validator built from strict and lenient is bound to _validator and passed
\* to nothing: parse_and_validate and batch_validate_directory build their
\* own WitParser::new() and WitValidator::new().
RunValidateCommand(files, path, strict, lenient, max_memory) ==
    IF IsSome(max_memory)
    THEN With(MemoryConstrainedValidate(path = 0, files),
              LAMBDA success :
                 IF ~success.ok THEN success
                 ELSE Ok(IF success.value THEN 0 ELSE 1))
    ELSE IF path \in 1..Len(files)
    THEN With(ParseAndValidateWithConfig(files, path, ParserNew, ValidatorNew),
              LAMBDA rep :
                 IF ~rep.ok THEN rep
                 ELSE Ok(IF rep.value.success THEN 0 ELSE 1))
    ELSE IF path = 0
    THEN Ok(IF BatchValidateDirectory(TRUE, files).success THEN 0 ELSE 1)
    ELSE Err([kind |-> "ConfigError", path |-> path])

\* cli::main: process::exit(exit_code), or 1 after an error
ExitCode(result) == IF result.ok THEN result.value ELSE 1

----------------------------------------------------------------------------
(* validation/session/src/lib.rs: SessionStateMachine *)

SessionStates ==
    {"Initializing", "Active", "Suspended", "Terminating", "Terminated", "Error"}

\* validate_transition as it would be with an arm (Terminated, Error) => true
ValidateTransitionFromTerminated(from, to) ==
    \/ from = "Initializing" /\ to \in {"Active", "Error", "Terminated"}
    \/ from = "Active" /\ to \in {"Suspended", "Terminating", "Error"}
    \/ from = "Suspended" /\ to \in {"Active", "Terminating", "Error"}
    \/ from = "Terminating" /\ to \in {"Terminated", "Error"}
    \/ from = "Terminated" /\ to = "Error"
    \/ from = "Error" /\ to \in {"Active", "Terminating", "Terminated"}
    \/ from = to

\* SessionStateMachine::validate_transition: TRUE for Ok(()), FALSE for
\* Err(InvalidStateTransition)
ValidateTransition(from, to) ==
    \/ from = "Initializing" /\ to \in {"Active", "Error", "Terminated"}
    \/ from = "Active" /\ to \in {"Suspended", "Terminating", "Error"}
    \/ from = "Suspended" /\ to \in {"Active", "Terminating", "Error"}
    \/ from = "Terminating" /\ to \in {"Terminated", "Error"}
    \/ from = "Error" /\ to \in {"Active", "Terminating", "Terminated"}
    \/ from = to

\* SessionStateMachine::get_valid_next_states
GetValidNextStates(current) ==
    CASE current = "Initializing" -> <<"Active", "Error", "Terminated">>
      [] current = "Active" -> <<"Suspended", "Terminating", "Error">>
      [] current = "Suspended" -> <<"Active", "Terminating", "Error">>
      [] current = "Terminating" -> <<"Terminated", "Error">>
      [] current = "Terminated" -> <<>>
      [] current = "Error" -> <<"Active", "Terminating", "Terminated">>

----------------------------------------------------------------------------
(* validation/mod.rs: TypeResolutionContext; validation/cross_reference.rs: *)
(* TypeReferenceValidator.  type_registry is kept as the set of its keys    *)
(* (resolve_type's result is only tested with is_none) and the documents    *)
(* carry no imports, so import_resolution stays empty.  The context text of *)
(* an issue (suggestion, available types) is left out.                      *)

\* TypeResolutionContext::new
NewTypeResolutionContext == [type_registry |-> {}, import_resolution |-> {}]

\* format!("{}/{}", format!("{}:{}", package_name, interface.name), name)
TypePath(package_name, interface, wit_type) ==
    package_name \o <<":">> \o interface.name \o <<"/">> \o wit_type.name

\* TypeResolutionContext::add_document
AddDocument(ctx, document) ==
    [ctx EXCEPT !.type_registry =
        @ \cup UNION {{TypePath(document.package_name, document.interfaces[i],
                                document.interfaces[i].types[j]) :
                          j \in 1..Len(document.interfaces[i].types)} :
                       i \in 1..Len(document.interfaces)}]

\* TypeResolutionContext::from_documents
FromDocuments(documents) == Fold(documents, NewTypeResolutionContext, AddDocument)

\* TypeResolutionContext::resolve_type(..).is_some()
ResolveType(ctx, type_ref) ==
    \/ type_ref \in ctx.type_registry
    \/ \E m \in ctx.import_resolution : m[1] = type_ref /\ m[2] \in ctx.type_registry

\* TypeReferenceValidator::is_primitive_type
IsPrimitiveType(type_name) ==
    type_name \in {<<"b","o","o","l">>, <<"u","8">>, <<"u","1","6">>, <<"u","3","2">>,
                   <<"u","6","4">>, <<"s","8">>, <<"s","1","6">>, <<"s","3","2">>,
                   <<"s","6","4">>, <<"f","3","2">>, <<"f","6","4">>,
                   <<"c","h","a","r">>, <<"s","t","r","i","n","g">>}

\* TypeReferenceValidator::validate_type_reference, as the list of issues
ValidateTypeReference(type_ref, ctx, source_location) ==
    IF IsPrimitiveType(type_ref) THEN <<>>
    ELSE IF ~ResolveType(ctx, type_ref)
    THEN <<[severity |-> "Error", code |-> "CROSS_REF_001",
            args |-> <<type_ref, source_location>>]>>
    ELSE <<>>

RECURSIVE ValidateWitTypeReferences(_, _, _)
\* TypeReferenceValidator::validate_wit_type_references
ValidateWitTypeReferences(wit_type, ctx, source_location) ==
    LET k == wit_type.kind
        Each(ts) == Flatten([i \in 1..Len(ts) |->
                                ValidateWitTypeReferences(ts[i], ctx, source_location)])
    IN  CASE k.tag = "Reference" -> ValidateTypeReference(k.name, ctx, source_location)
          [] k.tag \in {"List", "Option"} ->
                ValidateWitTypeReferences(k.elem, ctx, source_location)
          [] k.tag = "Result" -> Each(k.ok) \o Each(k.err)
          [] k.tag = "Tuple" -> Each(k.elems)
          [] k.tag = "Record" ->
                Flatten([i \in 1..Len(k.fields) |->
                            ValidateWitTypeReferences(
                               k.fields[i].field_type, ctx,
                               source_location \o <<"::">> \o k.fields[i].name)])
          [] k.tag = "Variant" ->
                Flatten([i \in 1..Len(k.cases) |->
                            IF IsSome(k.cases[i].payload)
                            THEN ValidateWitTypeReferences(
                                    k.cases[i].payload[1], ctx,
                                    source_location \o <<"::">> \o k.cases[i].name)
                            ELSE <<>>])
          [] OTHER -> <<>>

\* TypeReferenceValidator::validate_document
ValidateDocumentReferences(document) ==
    LET context == FromDocuments(<<document>>)
        OfFunction(interface, function) ==
            LET function_location ==
                    <<"interface ">> \o interface.name \o <<", function ">> \o function.name
            IN  Flatten([p \in 1..Len(function.parameters) |->
                            ValidateWitTypeReferences(
                               function.parameters[p].param_type, context,
                               function_location \o <<", parameter ">>
                                  \o function.parameters[p].name)])
                \o (IF IsSome(function.return_type)
                    THEN ValidateWitTypeReferences(
                            function.return_type[1], context,
                            function_location \o <<", return type">>)
                    ELSE <<>>)
        OfInterface(interface) ==
            Flatten([f \in 1..Len(interface.functions) |->
                        OfFunction(interface, interface.functions[f])])
            \o Flatten([t \in 1..Len(interface.types) |->
                        ValidateWitTypeReferences(
                           interface.types[t], context,
                           <<"interface ">> \o interface.name \o <<", type ">>
                              \o interface.types[t].name)])
    IN  Flatten([i \in 1..Len(document.interfaces) |-> OfInterface(document.interfaces[i])])

----------------------------------------------------------------------------
(* validation/memory/src/lib.rs: MemoryValidator and the component's       *)
(* create_allocation / free_allocation.  A session is a record of its      *)
(* platform, total_memory, used_memory, hard limit and allocations (a      *)
(* function from the number n of the id "alloc_n" to the size in bytes);   *)
(* timestamps and snapshots are not kept.                                  *)

\* MemoryValidator::new: platform_constraints (the platforms a session of
\* the component can have, and the two validate_allocation_request names)
PlatformConstraints ==
    [p \in {"dreamcast", "psp", "v6r-medium"} |->
        CASE p = "dreamcast" -> [memory_limit |-> 16 * 1024 * 1024, max_allocations |-> 100]
          [] p = "psp" -> [memory_limit |-> 64 * 1024 * 1024, max_allocations |-> 200]
          [] p = "v6r-medium" -> [memory_limit |-> 1024 * 1024 * 1024,
                                  max_allocations |-> 2000]]

\* MemoryValidator::new
NewMemoryValidator == [sessions |-> <<>>, allocation_counter |-> 0]

\* MemoryValidator::initialize_session
InitializeSession(validator, session_id, platform) ==
    IF platform \notin DOMAIN PlatformConstraints THEN validator
    ELSE LET constraints == PlatformConstraints[platform]
             fresh == [platform |-> platform,
                       total_memory |-> constraints.memory_limit,
                       used_memory |-> 0,
                       allocations |-> <<>>,
                       hard_limit |-> constraints.memory_limit]
         IN  [validator EXCEPT !.sessions =
                 [s \in DOMAIN @ \cup {session_id} |->
                     IF s = session_id THEN fresh ELSE @[s]]]

\* validate_allocation_request with the session hard-limit test left out
ValidateAllocationRequestNoHardLimit(validator, session_id, size, purpose) ==
    IF session_id \notin DOMAIN validator.sessions THEN Err("SessionNotFound")
    ELSE LET s == validator.sessions[session_id]
             constraints == PlatformConstraints[s.platform]
         IN  IF size > constraints.memory_limit THEN Err("LimitExceeded")
             ELSE IF Cardinality(DOMAIN s.allocations) >= constraints.max_allocations
             THEN Err("LimitExceeded")
             ELSE IF size = 0 THEN Err("InvalidSize")
             ELSE IF /\ purpose = "VmHeap"
                     /\ s.platform \in {"dreamcast", "psp"}
                     /\ size > constraints.memory_limit \div 2
             THEN Err("LimitExceeded")
             ELSE Ok(TRUE)

\* MemoryValidator::validate_allocation_request
ValidateAllocationRequest(validator, session_id, size, purpose) ==
    IF session_id \notin DOMAIN validator.sessions THEN Err("SessionNotFound")
    ELSE LET s == validator.sessions[session_id]
             constraints == PlatformConstraints[s.platform]
         IN  IF size > constraints.memory_limit THEN Err("LimitExceeded")
             ELSE IF s.used_memory + size > s.hard_limit THEN Err("LimitExceeded")
             ELSE IF Cardinality(DOMAIN s.allocations) >= constraints.max_allocations
             THEN Err("LimitExceeded")
             ELSE IF size = 0 THEN Err("InvalidSize")
             ELSE IF /\ purpose = "VmHeap"
                     /\ s.platform \in {"dreamcast", "psp"}
                     /\ size > constraints.memory_limit \div 2
             THEN Err("LimitExceeded")
             ELSE Ok(TRUE)

\* validation_error_to_memory_error
ValidationErrorToMemoryError(e) ==
    CASE e = "LimitExceeded" -> "LimitExceeded"
      [] e = "InvalidSize" -> "InvalidSize"
      [] e = "UnsupportedPlatform" -> "UnsupportedPlatform"
      [] e = "SessionNotFound" -> "InvalidAllocation"
      [] OTHER -> "AllocationFailed"

\* u64::saturating_sub
SaturatingSub(x, y) == IF y > x THEN 0 ELSE x - y

RECURSIVE SumSizes(_)
\* the sum of the sizes of a session's allocations
SumSizes(allocations) ==
    IF DOMAIN allocations = {} THEN 0
    ELSE LET id == CHOOSE x \in DOMAIN allocations : TRUE
         IN  allocations[id]
                + SumSizes([k \in DOMAIN allocations \ {id} |-> allocations[k]])

----------------------------------------------------------------------------
(* types.rs: CompatibilityReport *)

\* CompatibilityReport::new
NewCompatibilityReport ==
    [compatible |-> TRUE, breaking_changes |-> <<>>, additions |-> <<>>,
     modifications |-> <<>>]

\* add_breaking_change as it would be if it only pushed the entry
AddBreakingChangeKeepsFlag(r, change) ==
    [r EXCEPT !.breaking_changes = Append(@, change)]

\* CompatibilityReport::add_breaking_change
AddBreakingChange(r, change) ==
    [r EXCEPT !.compatible = FALSE, !.breaking_changes = Append(@, change)]

\* CompatibilityReport::add_addition
AddAddition(r, addition) == [r EXCEPT !.additions = Append(@, addition)]

\* CompatibilityReport::add_modification
AddModification(r, modification) ==
    [r EXCEPT !.modifications = Append(@, modification)]

\* CompatibilityReport::has_breaking_changes
HasBreakingChanges(r) == r.breaking_changes # <<>>

\* BreakingChange, Addition and Modification variants
RemovedInterface(n) == [type |-> "RemovedInterface", name |-> n]
RemovedFunction(i, f) == [type |-> "RemovedFunction", interface |-> i, function |-> f]
ChangedFunctionSignature(i, f, c) ==
    [type |-> "ChangedFunctionSignature", interface |-> i, function |-> f, change |-> c]
RemovedType(n) == [type |-> "RemovedType", name |-> n]
ModifiedTypeDefinition(n, c) ==
    [type |-> "ModifiedTypeDefinition", type_name |-> n, change |-> c]
AddedInterface(n) == [type |-> "AddedInterface", name |-> n]
AddedFunction(i, f) == [type |-> "AddedFunction", interface |-> i, function |-> f]
AddedType(n) == [type |-> "AddedType", name |-> n]
AddedWorld(n) == [type |-> "AddedWorld", name |-> n]
UpdatedDocumentation(item, item_type) ==
    [type |-> "UpdatedDocumentation", item |-> item, item_type |-> item_type]

----------------------------------------------------------------------------
(* lib.rs: WitProcessor::check_compatibility and its helpers *)

RECURSIVE DebugKind(_)
RECURSIVE DebugType(_)
RECURSIVE DebugJoin(_)

\* the texts of a Vec's elements, separated by ", "
DebugJoin(parts) ==
    IF parts = <<>> THEN <<>>
    ELSE Head(parts)
         \o (IF Len(parts) > 1 THEN <<", ">> ELSE <<>>)
         \o DebugJoin(Tail(parts))

DebugString(s) == <<"\"">> \o s \o <<"\"">>

\* an Option<WitType>
DebugOptType(o) ==
    IF IsSome(o) THEN <<"Some(">> \o DebugType(o[1]) \o <<")">> ELSE <<"None">>

\* format!("{:?}", wit_type): the derived Debug of WitType (documentation,
\* which the model does not carry, reads None)
DebugType(t) ==
    <<"WitType { name: ">> \o DebugString(t.name) \o <<", kind: ">>
    \o DebugKind(t.kind) \o <<", documentation: None }">>

\* format!("{:?}", kind): the derived Debug of WitTypeKind
DebugKind(k) ==
    CASE k.tag = "Primitive" -> <<"Primitive(">> \o DebugString(k.name) \o <<")">>
      [] k.tag = "Reference" -> <<"Reference(">> \o DebugString(k.name) \o <<")">>
      [] k.tag = "List" -> <<"List(">> \o DebugType(k.elem) \o <<")">>
      [] k.tag = "Option" -> <<"Option(">> \o DebugType(k.elem) \o <<")">>
      [] k.tag = "Result" ->
            <<"Result { ok: ">> \o DebugOptType(k.ok) \o <<", err: ">>
            \o DebugOptType(k.err) \o <<" }">>
      [] k.tag = "Tuple" -> <<"Tuple([">>
            \o DebugJoin([i \in 1..Len(k.elems) |-> DebugType(k.elems[i])])
            \o <<"])">>
      [] k.tag = "Record" ->
            <<"Record([">>
            \o DebugJoin([i \in 1..Len(k.fields) |->
                   <<"WitField { name: ">> \o DebugString(k.fields[i].name)
                   \o <<", field_type: ">> \o DebugType(k.fields[i].field_type)
                   \o <<", documentation: None }">>])
            \o <<"])">>
      [] k.tag = "Variant" ->
            <<"Variant([">>
            \o DebugJoin([i \in 1..Len(k.cases) |->
                   <<"WitVariantCase { name: ">> \o DebugString(k.cases[i].name)
                   \o <<", payload: ">> \o DebugOptType(k.cases[i].payload)
                   \o <<", documentation: None }">>])
            \o <<"])">>
      [] k.tag = "Enum" -> <<"Enum([">>
            \o DebugJoin([i \in 1..Len(k.values) |-> DebugString(k.values[i])])
            \o <<"])">>

RECURSIVE TypesDiffer(_, _)

\* the (Option<WitType>, Option<WitType>) matches of types_differ and
\* functions_differ
OptTypesDiffer(a, b) ==
    CASE ~IsSome(a) /\ ~IsSome(b) -> FALSE
      [] IsSome(a) /\ IsSome(b) -> TypesDiffer(a[1], b[1])
      [] OTHER -> TRUE

\* WitProcessor::types_differ: there is no arm for a pair of Result kinds,
\* which falls to the final "_ => true"
TypesDiffer(old, new) ==
    LET a == old.kind
        b == new.kind
    IN  CASE a.tag = "Primitive" /\ b.tag = "Primitive" -> a.name # b.name
          [] a.tag = "Reference" /\ b.tag = "Reference" -> a.name # b.name
          [] a.tag = "List" /\ b.tag = "List" -> TypesDiffer(a.elem, b.elem)
          [] a.tag = "Option" /\ b.tag = "Option" -> TypesDiffer(a.elem, b.elem)
          [] a.tag = "Tuple" /\ b.tag = "Tuple" ->
                \/ Len(a.elems) # Len(b.elems)
                \/ \E i \in 1..Len(a.elems) : TypesDiffer(a.elems[i], b.elems[i])
          [] a.tag = "Record" /\ b.tag = "Record" ->
                \/ Len(a.fields) # Len(b.fields)
                \/ \E i \in 1..Len(a.fields) :
                      \/ a.fields[i].name # b.fields[i].name
                      \/ TypesDiffer(a.fields[i].field_type, b.fields[i].field_type)
          [] a.tag = "Variant" /\ b.tag = "Variant" ->
                \/ Len(a.cases) # Len(b.cases)
                \/ \E i \in 1..Len(a.cases) :
                      \/ a.cases[i].name # b.cases[i].name
                      \/ OptTypesDiffer(a.cases[i].payload, b.cases[i].payload)
          [] a.tag = "Enum" /\ b.tag = "Enum" -> a.values # b.values
          [] OTHER -> TRUE

\* WitProcessor::functions_differ
FunctionsDiffer(old, new) ==
    IF Len(old.parameters) # Len(new.parameters) THEN TRUE
    ELSE IF \E i \in 1..Len(old.parameters) :
               \/ old.parameters[i].name # new.parameters[i].name
               \/ TypesDiffer(old.parameters[i].param_type, new.parameters[i].param_type)
    THEN TRUE
    ELSE OptTypesDiffer(old.return_type, new.return_type)

OptDebugKind(o) == IF IsSome(o) THEN Some(DebugKind(o[1].kind)) ELSE None

\* WitProcessor::analyze_function_signature_change
AnalyzeFunctionSignatureChange(old, new) ==
    LET op == old.parameters
        np == new.parameters
        per_old == [i \in 1..Len(op) |->
            IF i <= Len(np)
            THEN IF \/ op[i].name # np[i].name
                    \/ TypesDiffer(op[i].param_type, np[i].param_type)
                 THEN <<[name |-> op[i].name,
                         change_type |->
                            [type |-> "TypeChanged",
                             old_type |-> DebugKind(op[i].param_type.kind),
                             new_type |-> DebugKind(np[i].param_type.kind)]]>>
                 ELSE <<>>
            ELSE <<[name |-> op[i].name, change_type |-> [type |-> "Removed"]]>>]
        added == [j \in 1..(IF Len(np) > Len(op) THEN Len(np) - Len(op) ELSE 0) |->
                    [name |-> np[Len(op) + j].name, change_type |-> [type |-> "Added"]]]
        unchanged_return ==
            \/ ~IsSome(old.return_type) /\ ~IsSome(new.return_type)
            \/ /\ IsSome(old.return_type) /\ IsSome(new.return_type)
               /\ ~TypesDiffer(old.return_type[1], new.return_type[1])
    IN  [parameter_changes |-> Flatten(per_old) \o added,
         return_type_change |->
            IF unchanged_return THEN None
            ELSE Some([old_type |-> OptDebugKind(old.return_type),
                       new_type |-> OptDebugKind(new.return_type)])]

\* WitProcessor::analyze_type_change
AnalyzeTypeChange(old, new) ==
    CASE old.kind.tag = "Record" /\ new.kind.tag = "Record" ->
            [type |-> "RecordChanged", field_changes |-> <<>>]
      [] old.kind.tag = "Variant" /\ new.kind.tag = "Variant" ->
            [type |-> "VariantChanged", case_changes |-> <<>>]
      [] old.kind.tag = "Enum" /\ new.kind.tag = "Enum" ->
            [type |-> "EnumChanged", value_changes |-> <<>>]
      [] OTHER ->
            [type |-> "KindChanged", old_kind |-> DebugKind(old.kind),
             new_kind |-> DebugKind(new.kind)]

\* the keys of the HashMap built by items.iter().map(|x| (x.name.clone(), x)).collect()
Keys(items) == {items[i].name : i \in 1..Len(items)}

\* the value that map holds for a key: collect() keeps the last insertion
MapGet(items, name) ==
    items[CHOOSE i \in 1..Len(items) :
             /\ items[i].name = name
             /\ \A j \in 1..Len(items) : items[j].name = name => j <= i]

\* "for (name, _) in &map { if cond(name) { report.add_..(entry(name)) } }"
\* with the map yielding its keys in the order ord
ForKeys(ord, rep, Cond(_), Add(_, _)) ==
    LET RECURSIVE loop(_, _)
        loop(i, acc) ==
            IF i > Len(ord) THEN acc
            ELSE loop(i + 1, IF Cond(ord[i]) THEN Add(acc, ord[i]) ELSE acc)
    IN  loop(1, rep)

\* WitProcessor::compare_interfaces, with old_functions yielding its keys
\* in the order oOrd and new_functions in the order nOrd
CompareInterfacesIn(old_iface, new_iface, rep, oOrd, nOrd) ==
    LET old_functions == old_iface.functions
        new_functions == new_iface.functions
        r1 == ForKeys(oOrd, rep,
                      LAMBDA n : n \notin Keys(new_functions),
                      LAMBDA r, n : AddBreakingChange(r, RemovedFunction(old_iface.name, n)))
        r2 == ForKeys(nOrd, r1,
                      LAMBDA n : n \notin Keys(old_functions),
                      LAMBDA r, n : AddAddition(r, AddedFunction(old_iface.name, n)))
        r3 == ForKeys(oOrd, r2,
                      LAMBDA n : /\ n \in Keys(new_functions)
                                 /\ FunctionsDiffer(MapGet(old_functions, n),
                                                    MapGet(new_functions, n)),
                      LAMBDA r, n :
                          AddBreakingChange(r, ChangedFunctionSignature(old_iface.name, n,
                              AnalyzeFunctionSignatureChange(MapGet(old_functions, n),
                                                             MapGet(new_functions, n)))))
    IN  IF old_iface.documentation # new_iface.documentation
        THEN AddModification(r3, UpdatedDocumentation(old_iface.name, <<"interface">>))
        ELSE r3

\* every report compare_interfaces can leave, over the iteration orders of
\* its two HashMaps
CompareInterfaces(old_iface, new_iface, rep) ==
    {CompareInterfacesIn(old_iface, new_iface, rep, oOrd, nOrd) :
        oOrd \in KeyOrders(Keys(old_iface.functions)),
        nOrd \in KeyOrders(Keys(new_iface.functions))}

\* compare_types looping over the type definitions rather than over the
\* keys of the maps built from them
CompareTypesPerDefinition(old_document, new_document, rep, oOrd, nOrd) ==
    LET old_types == AllTypes(old_document)
        new_types == AllTypes(new_document)
        r1 == ForKeys([x \in 1..Len(old_types) |-> old_types[x].name], rep,
                      LAMBDA n : n \notin Keys(new_types),
                      LAMBDA r, n : AddBreakingChange(r, RemovedType(n)))
        r2 == ForKeys([x \in 1..Len(new_types) |-> new_types[x].name], r1,
                      LAMBDA n : n \notin Keys(old_types),
                      LAMBDA r, n : AddAddition(r, AddedType(n)))
    IN  ForKeys(oOrd, r2,
                LAMBDA n : /\ n \in Keys(new_types)
                           /\ TypesDiffer(MapGet(old_types, n), MapGet(new_types, n)),
                LAMBDA r, n :
                    AddBreakingChange(r, ModifiedTypeDefinition(n,
                        AnalyzeTypeChange(MapGet(old_types, n), MapGet(new_types, n)))))

\* WitProcessor::compare_types
CompareTypesIn(old_document, new_document, rep, oOrd, nOrd) ==
    LET old_types == AllTypes(old_document)
        new_types == AllTypes(new_document)
        r1 == ForKeys(oOrd, rep,
                      LAMBDA n : n \notin Keys(new_types),
                      LAMBDA r, n : AddBreakingChange(r, RemovedType(n)))
        r2 == ForKeys(nOrd, r1,
                      LAMBDA n : n \notin Keys(old_types),
                      LAMBDA r, n : AddAddition(r, AddedType(n)))
    IN  ForKeys(oOrd, r2,
                LAMBDA n : /\ n \in Keys(new_types)
                           /\ TypesDiffer(MapGet(old_types, n), MapGet(new_types, n)),
                LAMBDA r, n :
                    AddBreakingChange(r, ModifiedTypeDefinition(n,
                        AnalyzeTypeChange(MapGet(old_types, n), MapGet(new_types, n)))))

CompareTypes(old_document, new_document, rep) ==
    {CompareTypesIn(old_document, new_document, rep, oOrd, nOrd) :
        oOrd \in KeyOrders(Keys(AllTypes(old_document))),
        nOrd \in KeyOrders(Keys(AllTypes(new_document)))}

\* compare_worlds as it would be if it also looped over old_worlds and
\* classified a world missing from new_worlds
CompareWorldsTracksRemoved(old_document, new_document, rep, nOrd) ==
    LET r1 == ForKeys(nOrd, rep,
                      LAMBDA n : n \notin Keys(old_document.worlds),
                      LAMBDA r, n : AddAddition(r, AddedWorld(n)))
    IN  ForKeys([x \in 1..Len(old_document.worlds) |-> old_document.worlds[x].name], r1,
                LAMBDA n : n \notin Keys(new_document.worlds),
                LAMBDA r, n : AddBreakingChange(r, [type |-> "RemovedWorld", name |-> n]))

\* WitProcessor::compare_worlds: only new_worlds is iterated
CompareWorldsIn(old_document, new_document, rep, nOrd) ==
    ForKeys(nOrd, rep,
            LAMBDA n : n \notin Keys(old_document.worlds),
            LAMBDA r, n : AddAddition(r, AddedWorld(n)))

CompareWorlds(old_document, new_document, rep) ==
    {CompareWorldsIn(old_document, new_document, rep, nOrd) :
        nOrd \in KeyOrders(Keys(new_document.worlds))}

\* the interface part of check_compatibility, with old_interfaces yielding
\* its keys in the order oOrd and new_interfaces in the order nOrd: the set
\* of reports the three loops can leave
CompareAllInterfaces(old_document, new_document, oOrd, nOrd) ==
    LET old_interfaces == old_document.interfaces
        new_interfaces == new_document.interfaces
        r1 == ForKeys(oOrd, NewCompatibilityReport,
                      LAMBDA n : n \notin Keys(new_interfaces),
                      LAMBDA r, n : AddBreakingChange(r, RemovedInterface(n)))
        r2 == ForKeys(nOrd, r1,
                      LAMBDA n : n \notin Keys(old_interfaces),
                      LAMBDA r, n : AddAddition(r, AddedInterface(n)))
        RECURSIVE loop(_, _)
        loop(i, reps) ==
            IF i > Len(oOrd) THEN reps
            ELSE loop(i + 1,
                      IF oOrd[i] \in Keys(new_interfaces)
                      THEN UNION {CompareInterfaces(MapGet(old_interfaces, oOrd[i]),
                                                    MapGet(new_interfaces, oOrd[i]), r) :
                                     r \in reps}
                      ELSE reps)
    IN  loop(1, {r2})

\* WitProcessor::check_compatibility: every report it can return.  The
\* order in which a std HashMap yields its keys is not specified, so each
\* loop over a map may run in any order of that map's keys.
CheckCompatibility(old_document, new_document) ==
    LET afterInterfaces ==
            UNION {CompareAllInterfaces(old_document, new_document, oOrd, nOrd) :
                      oOrd \in KeyOrders(Keys(old_document.interfaces)),
                      nOrd \in KeyOrders(Keys(new_document.interfaces))}
        afterTypes ==
            UNION {CompareTypes(old_document, new_document, r) : r \in afterInterfaces}
    IN  UNION {CompareWorlds(old_document, new_document, r) : r \in afterTypes}

----------------------------------------------------------------------------
(* types.rs: TypeDependencyGraph; lib.rs: extract_type_dependencies *)

\* TypeDependencyGraph::new (usage_patterns is never written by the
\* operations modelled here)
NewTypeDependencyGraph ==
    [nodes |-> <<>>, edges |-> <<>>, circular_dependencies |-> <<>>]

\* Vec::contains
Contains(s, x) == \E i \in 1..Len(s) : s[i] = x

\* add_dependency as it would be if the target were pushed without the
\* contains test
AddDependencyPushesTarget(g, from, to, dependency_type) ==
    LET n1 == IF Contains(g.nodes, from) THEN g.nodes ELSE Append(g.nodes, from)
    IN  [g EXCEPT !.nodes = Append(n1, to),
                  !.edges = Append(@, [from |-> from, to |-> to,
                                       dependency_type |-> dependency_type])]

\* TypeDependencyGraph::add_dependency
AddDependency(g, from, to, dependency_type) ==
    LET n1 == IF Contains(g.nodes, from) THEN g.nodes ELSE Append(g.nodes, from)
        n2 == IF Contains(n1, to) THEN n1 ELSE Append(n1, to)
    IN  [g EXCEPT !.nodes = n2,
                  !.edges = Append(@, [from |-> from, to |-> to,
                                       dependency_type |-> dependency_type])]

\* TypeDependencyGraph::has_circular_dependencies
HasCircularDependencies(g) == g.circular_dependencies # <<>>

\* TypeDependencyGraph::get_dependencies
GetDependencies(g, type_name) == SelectSeq(g.edges, LAMBDA e : e.from = type_name)

RECURSIVE AddTypeDependenciesRecursive(_, _, _, _)
\* WitProcessor::add_type_dependencies_recursive
AddTypeDependenciesRecursive(from, wit_type, g, dependency_type) ==
    LET k == wit_type.kind
    IN  CASE k.tag = "Primitive" -> g
          [] k.tag = "Reference" -> AddDependency(g, from, k.name, dependency_type)
          [] k.tag = "List" -> AddTypeDependenciesRecursive(from, k.elem, g, "ListElement")
          [] k.tag = "Option" -> AddTypeDependenciesRecursive(from, k.elem, g, "OptionInner")
          [] k.tag = "Result" ->
                Fold(k.ok \o k.err, g,
                     LAMBDA acc, t : AddTypeDependenciesRecursive(from, t, acc, "ResultType"))
          [] k.tag = "Tuple" ->
                Fold(k.elems, g,
                     LAMBDA acc, t : AddTypeDependenciesRecursive(from, t, acc, "TupleElement"))
          [] k.tag = "Record" ->
                Fold(k.fields, g,
                     LAMBDA acc, f :
                         AddTypeDependenciesRecursive(from, f.field_type, acc, "FieldType"))
          [] k.tag = "Variant" ->
                Fold(k.cases, g,
                     LAMBDA acc, c :
                         IF IsSome(c.payload)
                         THEN AddTypeDependenciesRecursive(from, c.payload[1], acc,
                                                           "VariantPayload")
                         ELSE acc)
          [] k.tag = "Enum" -> g

\* WitProcessor::add_type_definition_dependencies
AddTypeDefinitionDependencies(type_def, g) ==
    CASE type_def.kind.tag = "Record" ->
            Fold(type_def.kind.fields, g,
                 LAMBDA acc, f :
                     AddTypeDependenciesRecursive(type_def.name, f.field_type, acc,
                                                  "FieldType"))
      [] type_def.kind.tag = "Variant" ->
            Fold(type_def.kind.cases, g,
                 LAMBDA acc, c :
                     IF IsSome(c.payload)
                     THEN AddTypeDependenciesRecursive(type_def.name, c.payload[1], acc,
                                                       "VariantPayload")
                     ELSE acc)
      [] OTHER -> AddTypeDependenciesRecursive(type_def.name, type_def, g, "FieldType")

\* CircularDependencySeverity by the length of the cycle
Severity(cycle) ==
    IF Len(cycle) <= 2 THEN "Info" ELSE IF Len(cycle) <= 5 THEN "Warning" ELSE "Error"

\* the start of the cycle as it would be if the cycle were taken from the
\* node after the one found
PositionAfter(path, x) ==
    1 + (CHOOSE i \in 1..Len(path) : path[i] = x /\ \A j \in 1..(i - 1) : path[j] # x)

\* path.iter().position(|n| n == x).unwrap()
Position(path, x) == CHOOSE i \in 1..Len(path) : path[i] = x /\ \A j \in 1..(i - 1) : path[j] # x

RECURSIVE DfsDetectCyclesWholePath(_, _, _)
\* dfs_detect_cycles as it would be if it recorded the whole path rather
\* than the part of it from the node found on the stack
DfsDetectCyclesWholePath(node, g, st) ==
    LET entered == [st EXCEPT !.visited = @ \cup {node},
                              !.recursion_stack = @ \cup {node},
                              !.path = Append(@, node)]
        after == Fold(GetDependencies(g, node), entered,
                      LAMBDA s, dep :
                          IF dep.to \notin s.visited
                          THEN DfsDetectCyclesWholePath(dep.to, g, s)
                          ELSE IF dep.to \in s.recursion_stack
                          THEN [s EXCEPT !.cycles =
                                   Append(@, [cycle |-> s.path,
                                              severity |-> Severity(s.path)])]
                          ELSE s)
    IN  [after EXCEPT !.recursion_stack = @ \ {node},
                      !.path = SubSeq(@, 1, Len(@) - 1)]

RECURSIVE DfsDetectCycles(_, _, _)
\* WitProcessor::dfs_detect_cycles; st is [visited, recursion_stack, path,
\* cycles]
DfsDetectCycles(node, g, st) ==
    LET entered == [st EXCEPT !.visited = @ \cup {node},
                              !.recursion_stack = @ \cup {node},
                              !.path = Append(@, node)]
        after == Fold(GetDependencies(g, node), entered,
                      LAMBDA s, dep :
                          IF dep.to \notin s.visited
                          THEN DfsDetectCycles(dep.to, g, s)
                          ELSE IF dep.to \in s.recursion_stack
                          THEN LET cycle == SubSeq(s.path, Position(s.path, dep.to),
                                                   Len(s.path))
                               IN  [s EXCEPT !.cycles =
                                       Append(@, [cycle |-> cycle,
                                                  severity |-> Severity(cycle)])]
                          ELSE s)
    IN  [after EXCEPT !.recursion_stack = @ \ {node},
                      !.path = SubSeq(@, 1, Len(@) - 1)]

\* WitProcessor::detect_circular_dependencies
DetectCircularDependencies(g) ==
    LET done == Fold(g.nodes,
                     [visited |-> {}, recursion_stack |-> {}, path |-> <<>>, cycles |-> <<>>],
                     LAMBDA st, node :
                         IF node \notin st.visited THEN DfsDetectCycles(node, g, st) ELSE st)
    IN  [g EXCEPT !.circular_dependencies = done.cycles]

\* format!("{}::{}", interface.name, function.name)
FunctionNode(interface, function) == interface.name \o <<":", ":">> \o function.name

\* WitProcessor::extract_type_dependencies
ExtractTypeDependencies(document) ==
    LET perFunction(interface, g0, function) ==
            LET g1 == Fold(function.parameters, g0,
                           LAMBDA acc, param :
                               AddTypeDependenciesRecursive(
                                   FunctionNode(interface, function), param.param_type,
                                   acc, "FunctionParameter"))
            IN  IF IsSome(function.return_type)
                THEN AddTypeDependenciesRecursive(FunctionNode(interface, function),
                                                  function.return_type[1], g1,
                                                  "FunctionReturn")
                ELSE g1
        perInterface(g0, interface) ==
            LET g1 == Fold(interface.functions, g0,
                           LAMBDA acc, function : perFunction(interface, acc, function))
            IN  Fold(interface.types, g1,
                     LAMBDA acc, type_def : AddTypeDefinitionDependencies(type_def, acc))
    IN  With(Fold(document.interfaces, NewTypeDependencyGraph, perInterface),
             LAMBDA g : DetectCircularDependencies(g))

----------------------------------------------------------------------------
(* Names and small documents the specifications below draw from *)

N_api == <<"a","p","i">>
N_aux == <<"a","u","x">>
N_get == <<"g","e","t">>
N_del == <<"d","e","l">>
N_create == <<"c","r","e","a","t","e">>
N_id == <<"i","d">>
N_name == <<"n","a","m","e">>
N_a == <<"a">>
N_b == <<"b">>
N_rec == <<"r","e","c">>
N_res == <<"r","e","s">>
N_lst == <<"l","s","t">>
N_col == <<"c","o","l">>
N_w == <<"w">>
N_u8 == <<"u","8">>
N_u32 == <<"u","3","2">>
N_string == <<"s","t","r","i","n","g">>
N_bool == <<"b","o","o","l">>
N_anonymous == <<"a","n","o","n","y","m","o","u","s">>
N_pkg == <<"n","s",":","p","k","g">>
N_badIdent == <<"9","x">>
N_docs == <<"d","o","c","s">>

\* what parser.rs convert_type yields for a built-in type
Prim(n) == Ty(N_anonymous, Primitive(n))

T_u8 == Prim(N_u8)
T_u32 == Prim(N_u32)
T_string == Prim(N_string)
T_bool == Prim(N_bool)

IdleDoc == Doc(0, N_pkg, Some(<<"1">>), <<>>, <<>>, 0, 0)

NoResults == [p \in {"strict", "default", "lenient"} |-> None]

\* the variables of the other specifications, at rest
DepIdle == ddoc = IdleDoc /\ graph = None
NoCall == Frame("none", "idle", ParserNew)
StepIdle == run = NoCall /\ events = <<>>
ParIdle == par = None
LateIdle == cli = None /\ session = None /\ xref = None /\ mem = None /\ calls = <<>>
ExtIdle == DepIdle /\ StepIdle /\ ParIdle /\ LateIdle
BaseIdle ==
    /\ report = NewValidationReport
    /\ vdoc = IdleDoc /\ vresults = NoResults
    /\ dir = <<>> /\ batch = None
    /\ oldDoc = IdleDoc /\ newDoc = IdleDoc /\ steps = 0
    /\ compat = NewCompatibilityReport /\ checked = FALSE

----------------------------------------------------------------------------
(* Specification SpecReport: a ValidationReport driven through add_error,  *)
(* add_warning and add_info.                                               *)

MaxIssues == 4

ErrorCodes == {"DUPLICATE_NAME", "EMPTY_VARIANT"}
WarningCodes == {"EMPTY_RECORD", "MISSING_VERSION"}
InfoCodes == {"UNBOUNDED_LIST", "SLOW_PARSE"}

InitReport ==
    /\ report = NewValidationReport
    /\ vdoc = IdleDoc /\ vresults = NoResults
    /\ dir = <<>> /\ batch = None
    /\ oldDoc = IdleDoc /\ newDoc = IdleDoc /\ steps = 0
    /\ compat = NewCompatibilityReport /\ checked = FALSE
    /\ ExtIdle

CallAddError ==
    /\ TotalIssues(report) < MaxIssues
    /\ \E c \in ErrorCodes : report' = ReportAddError(report, Issue("Error", c, <<>>, 0))
    /\ UNCHANGED <<ext, vdoc, vresults, dir, batch, oldDoc, newDoc, steps, compat, checked>>

CallAddWarning ==
    /\ TotalIssues(report) < MaxIssues
    /\ \E c \in WarningCodes :
          report' = ReportAddWarning(report, Issue("Warning", c, <<>>, 0))
    /\ UNCHANGED <<ext, vdoc, vresults, dir, batch, oldDoc, newDoc, steps, compat, checked>>

CallAddInfo ==
    /\ TotalIssues(report) < MaxIssues
    /\ \E c \in InfoCodes : report' = ReportAddInfo(report, Issue("Info", c, <<>>, 0))
    /\ UNCHANGED <<ext, vdoc, vresults, dir, batch, oldDoc, newDoc, steps, compat, checked>>

NextReport == CallAddError \/ CallAddWarning \/ CallAddInfo

SpecReport == InitReport /\ [][NextReport]_vars

\* C1: after any sequence of add_error, add_warning and add_info calls on a
\* report created by new(), is_valid() is true if and only if the errors
\* list is empty (so a report holding only warnings and info is valid).
C1_ValidIffNoErrors == IsValid(report) <=> (report.errors = <<>>)

\* C1 witnesses: a report that received only warnings and info, and one
\* that received an error after them
C1_WitnessOnlyWarnings ==
    /\ report.errors = <<>> /\ report.warnings # <<>> /\ report.info # <<>>
    /\ IsValid(report)

----------------------------------------------------------------------------
(* Specification SpecValidator: one document, validated by the strict,     *)
(* default and lenient presets.  WrapType nests the last type of the       *)
(* first interface one level deeper (type t = list<..> / option<..>).      *)

MaxWraps == 11

V_version == Some(<<"1", ".", "0", ".", "0">>)

\* the get(id: u32) -> string of the integration tests
F_get == Func(N_get, <<Param(N_id, T_u32)>>, Some(T_string))

\* a well-formed document
VD_ok ==
    Doc(1, N_pkg, V_version,
        <<Iface(N_api, <<F_get>>,
                <<Ty(N_rec, RecordOf(<<Field(N_a, T_u32), Field(N_b, T_string)>>))>>,
                None)>>,
        <<World(N_w, <<>>, <<N_api>>)>>, 100, 1)

\* a record with the field name a three times
VD_dupFields ==
    Doc(1, N_pkg, V_version,
        <<Iface(N_api, <<F_get>>,
                <<Ty(N_rec, RecordOf(<<Field(N_a, T_u32), Field(N_a, T_string),
                                       Field(N_a, T_bool)>>))>>,
                None)>>,
        <<>>, 100, 1)

\* names that are not identifiers, an empty variant, no version
VD_badNames ==
    Doc(1, N_pkg, None,
        <<Iface(N_api, <<Func(N_badIdent, <<Param(N_id, T_u32), Param(N_id, T_u32)>>, None)>>,
                <<Ty(N_res, VariantOf(<<>>)),
                  Ty(N_col, EnumOf(<<N_a, N_badIdent>>))>>,
                None)>>,
        <<World(N_w, <<>>, <<>>)>>, 100, 1)

ValidatorDocs == {VD_ok, VD_dupFields, VD_badNames}

Preset(p) ==
    CASE p = "strict" -> ValidatorStrict
      [] p = "default" -> ValidatorNew
      [] p = "lenient" -> ValidatorLenient

RECURSIVE WrapDepth(_)
\* the number of list<..> / option<..> layers around a type
WrapDepth(t) ==
    IF t.kind.tag \in {"List", "Option"} THEN 1 + WrapDepth(t.kind.elem) ELSE 0

InitValidator ==
    /\ vdoc \in ValidatorDocs
    /\ vresults = NoResults
    /\ report = NewValidationReport
    /\ dir = <<>> /\ batch = None
    /\ oldDoc = IdleDoc /\ newDoc = IdleDoc /\ steps = 0
    /\ compat = NewCompatibilityReport /\ checked = FALSE
    /\ ExtIdle

\* the document is edited: its last type of the first interface is nested
\* one level deeper; earlier reports no longer describe it
WrapType ==
    /\ vdoc.interfaces # <<>> /\ vdoc.interfaces[1].types # <<>>
    /\ LET ts == vdoc.interfaces[1].types
           t == ts[Len(ts)]
       IN  /\ WrapDepth(t) < MaxWraps
           /\ \E w \in {"List", "Option"} :
                 vdoc' = [vdoc EXCEPT !.interfaces[1].types[Len(ts)] =
                             Ty(t.name, IF w = "List" THEN ListOf(t) ELSE OptionOf(t))]
    /\ vresults' = NoResults
    /\ UNCHANGED <<ext, report, dir, batch, oldDoc, newDoc, steps, compat, checked>>

\* WitValidator::strict() / new() / lenient() followed by validate(&vdoc)
CallValidate ==
    /\ \E p \in DOMAIN vresults :
          /\ vresults[p] = None
          /\ vresults' = [vresults EXCEPT ![p] = Some(Validate(Preset(p), vdoc))]
    /\ UNCHANGED <<ext, report, vdoc, dir, batch, oldDoc, newDoc, steps, compat, checked>>

NextValidator == WrapType \/ CallValidate

SpecValidator == InitValidator /\ [][NextValidator]_vars

ErrorCount(p) == Len(vresults[p][1].errors)

\* C2: for any fixed document, the strict preset reports at least as many
\* errors as the default preset, which reports at least as many as the
\* lenient preset.
C2_ErrorCountsMonotone ==
    /\ (IsSome(vresults["strict"]) /\ IsSome(vresults["default"]))
          => ErrorCount("strict") >= ErrorCount("default")
    /\ (IsSome(vresults["default"]) /\ IsSome(vresults["lenient"]))
          => ErrorCount("default") >= ErrorCount("lenient")

----------------------------------------------------------------------------
(* Specification SpecBatch: a directory that files are written to, batch   *)
(* validation of it, and add_error calls on the report.                    *)

MaxFiles == 6
MaxBatchErrors == 2

\* a document the default preset reports an error for (EMPTY_VARIANT)
VD_emptyVariant ==
    Doc(1, N_pkg, V_version,
        <<Iface(N_api, <<F_get>>, <<Ty(N_res, VariantOf(<<>>))>>, None)>>,
        <<>>, 100, 1)

\* the kinds of file written: a well-formed .wit file, a .wit file that
\* parses and fails validation, a .wit file with a syntax error, and a file
\* with another extension
FileKinds ==
    {[wit |-> TRUE, size |-> 100, syntax_ok |-> TRUE, doc |-> VD_ok],
     [wit |-> TRUE, size |-> 100, syntax_ok |-> TRUE, doc |-> VD_emptyVariant],
     [wit |-> TRUE, size |-> 100, syntax_ok |-> FALSE, doc |-> IdleDoc],
     [wit |-> FALSE, size |-> 100, syntax_ok |-> FALSE, doc |-> IdleDoc]}

InitBatch ==
    /\ dir = <<>> /\ batch = None
    /\ report = NewValidationReport
    /\ vdoc = IdleDoc /\ vresults = NoResults
    /\ oldDoc = IdleDoc /\ newDoc = IdleDoc /\ steps = 0
    /\ compat = NewCompatibilityReport /\ checked = FALSE
    /\ ExtIdle

\* a file is written to the directory; an earlier report no longer
\* describes it
WriteFile ==
    /\ Len(dir) < MaxFiles
    /\ \E k \in FileKinds :
          dir' = Append(dir, [path |-> Len(dir) + 1, wit |-> k.wit, size |-> k.size,
                              syntax_ok |-> k.syntax_ok, doc |-> k.doc])
    /\ batch' = None
    /\ UNCHANGED <<ext, report, vdoc, vresults, oldDoc, newDoc, steps, compat, checked>>

\* batch_validate_directory(path), path naming the directory
CallBatchValidate ==
    /\ batch = None
    /\ batch' = Some([isDir |-> TRUE, r |-> BatchValidateDirectory(TRUE, dir)])
    /\ UNCHANGED <<ext, report, vdoc, vresults, dir, oldDoc, newDoc, steps, compat, checked>>

\* batch_validate_directory(path), path naming something that is not a
\* directory
CallBatchValidateNoDirectory ==
    /\ batch = None
    /\ batch' = Some([isDir |-> FALSE, r |-> BatchValidateDirectory(FALSE, dir)])
    /\ UNCHANGED <<ext, report, vdoc, vresults, dir, oldDoc, newDoc, steps, compat, checked>>

\* BatchValidationReport::add_error on the report
CallBatchAddError ==
    /\ batch # None
    /\ Len(batch[1].r.errors) < MaxBatchErrors
    /\ \E e \in {[kind |-> "ParseError", path |-> 0], [kind |-> "Internal", path |-> 0]} :
          batch' = Some([batch[1] EXCEPT !.r = BatchAddError(@, e)])
    /\ UNCHANGED <<ext, report, vdoc, vresults, dir, oldDoc, newDoc, steps, compat, checked>>

NextBatch ==
    WriteFile \/ CallBatchValidate \/ CallBatchValidateNoDirectory \/ CallBatchAddError

SpecBatch == InitBatch /\ [][NextBatch]_vars

\* the .wit files of the directory the external parser accepts / rejects
Parseable == SelectSeq(dir, LAMBDA f : f.wit /\ f.syntax_ok)
Unparseable == SelectSeq(dir, LAMBDA f : f.wit /\ ~f.syntax_ok)

\* batch holds what batch_validate_directory returned for dir
Returned == batch # None /\ batch[1].isDir /\ batch[1].r.errors = <<>>

\* C3: batch validation of a directory with n parseable and m unparseable
\* .wit files reports total_files = n+m, successful_files = n,
\* failed_files = m, success = false whenever m > 0, and holds the
\* documents of all n parseable files.
C3_PartialFailureCounts ==
    Returned =>
        LET n == Len(Parseable)
            m == Len(Unparseable)
            r == batch[1].r
        IN  /\ r.stats.total_files = n + m
            /\ r.stats.successful_files = n
            /\ r.stats.failed_files = m
            /\ (m > 0 => ~r.success)
            /\ [i \in 1..Len(r.documents) |-> r.documents[i].path]
                  = [i \in 1..n |-> Parseable[i].path]

\* C4: in every report reachable through BatchValidationReport::new
\* followed by any number of add_error calls,
\* successful_files + failed_files = total_files.
C4_StatsConsistent ==
    batch # None =>
        LET s == batch[1].r.stats
        IN  s.successful_files + s.failed_files = s.total_files

\* C5: success is true exactly when no discovered .wit file failed to
\* parse and the merged validation report has no errors.
C5_SuccessIffAllParsedAndValid ==
    Returned =>
        (batch[1].r.success
            <=> (Unparseable = <<>> /\ batch[1].r.validation.errors = <<>>))

\* C21: batch_validate_directory_with_config never returns Err: a file that
\* fails to parse does not stop the remaining files from being parsed and
\* validated, and when the path cannot be read as a directory the call
\* returns a report with no documents, success = false and exactly one
\* recorded error.
C21_BatchNeverFailsFast ==
    [][(batch = None /\ batch' # None) =>
          LET r == batch'[1].r
          IN  IF batch'[1].isDir
              THEN /\ r.errors = <<>>
                   /\ [i \in 1..Len(r.documents) |-> r.documents[i].path]
                         = [i \in 1..Len(Parseable) |-> Parseable[i].path]
                   /\ (\E i \in 1..Len(Parseable) : Parseable[i].doc = VD_emptyVariant)
                         => r.validation.errors # <<>>
              ELSE /\ r.documents = <<>>
                   /\ ~r.success
                   /\ Len(r.errors) = 1
                   /\ r.errors[1].kind = "DirectoryRead"]_vars

\* a directory whose first file has a syntax error and whose second file
\* fails validation was validated: the second file's document and errors
\* are in the report
C21_WitnessContinuesAfterFailure ==
    /\ Returned
    /\ Len(dir) >= 2
    /\ dir[1].wit /\ ~dir[1].syntax_ok
    /\ dir[2].wit /\ dir[2].syntax_ok /\ dir[2].doc = VD_emptyVariant
    /\ Len(batch[1].r.documents) >= 1
    /\ batch[1].r.validation.errors # <<>>

----------------------------------------------------------------------------
(* Specification SpecCompat: an old document, a new document obtained from *)
(* it by edits, check_compatibility of the two, and the add_* calls of the *)
(* report.                                                                 *)

MaxSteps == 2

RemoveAt(s, j) == SubSeq(s, 1, j - 1) \o SubSeq(s, j + 1, Len(s))

F_del == Func(N_del, <<Param(N_id, T_u32)>>, Some(T_bool))
F_create == Func(N_create, <<Param(N_name, T_string)>>, Some(T_u32))

K_result == ResultOf(Some(T_u32), Some(T_string))
K_record == RecordOf(<<Field(N_a, T_u32), Field(N_b, T_string)>>)

\* v1 of the integration tests: interface api { get: func(id: u32) -> string }
CD_v1 == Doc(1, N_pkg, V_version, <<Iface(N_api, <<F_get>>, <<>>, None)>>, <<>>, 100, 1)

\* an interface that uses result<..>, in a signature and as a named type
CD_results ==
    Doc(1, N_pkg, V_version,
        <<Iface(N_api,
                <<F_get, Func(N_del, <<Param(N_id, T_u32)>>,
                              Some(Ty(N_anonymous, ResultOf(Some(T_bool), Some(T_string)))))>>,
                <<Ty(N_rec, K_record), Ty(N_res, K_result)>>,
                None)>>,
        <<World(N_w, <<>>, <<N_api>>)>>, 100, 1)

\* two interfaces, each defining a type rec
CD_two ==
    Doc(1, N_pkg, V_version,
        <<Iface(N_api, <<F_get>>, <<Ty(N_rec, K_record)>>, None),
          Iface(N_aux, <<F_del>>, <<Ty(N_rec, EnumOf(<<N_a, N_b>>))>>, None)>>,
        <<>>, 100, 1)

BaseDocs == {CD_v1, CD_results, CD_two}

FuncPool == {F_create, F_del}
ParamTypePool == {T_u32, T_string}
IfacePool == {Iface(N_col, <<F_create>>, <<Ty(N_lst, ListOf(T_u8))>>, None)}
TypePool == {Ty(N_lst, ListOf(T_u8)), Ty(N_res, K_result)}
KindPool == {ListOf(T_u8), K_result, RecordOf(<<Field(N_a, T_u32)>>)}
WorldPool == {World(N_w, <<>>, <<N_api>>), World(N_aux, <<N_api>>, <<>>)}

InitCompat ==
    /\ oldDoc \in BaseDocs /\ newDoc = oldDoc
    /\ steps = 0 /\ compat = NewCompatibilityReport /\ checked = FALSE
    /\ report = NewValidationReport
    /\ vdoc = IdleDoc /\ vresults = NoResults
    /\ dir = <<>> /\ batch = None
    /\ ExtIdle

\* the new document becomes d; a report made earlier no longer describes it
Edit(d) ==
    /\ steps < MaxSteps
    /\ newDoc' = d /\ steps' = steps + 1 /\ checked' = FALSE
    /\ UNCHANGED <<ext, report, vdoc, vresults, dir, batch, oldDoc, compat>>

Ifaces == 1..Len(newDoc.interfaces)
Funcs(i) == 1..Len(newDoc.interfaces[i].functions)
Types(i) == 1..Len(newDoc.interfaces[i].types)

AddFunction ==
    \E i \in Ifaces : \E f \in FuncPool :
        /\ f.name \notin Keys(newDoc.interfaces[i].functions)
        /\ Edit([newDoc EXCEPT !.interfaces[i].functions = Append(@, f)])

RemoveFunction ==
    \E i \in Ifaces : \E j \in Funcs(i) :
        Edit([newDoc EXCEPT !.interfaces[i].functions = RemoveAt(@, j)])

RenameFunction ==
    \E i \in Ifaces : \E j \in Funcs(i) :
        /\ N_create \notin Keys(newDoc.interfaces[i].functions)
        /\ Edit([newDoc EXCEPT !.interfaces[i].functions[j].name = N_create])

ChangeParamType ==
    \E i \in Ifaces : \E j \in Funcs(i) :
        \E p \in 1..Len(newDoc.interfaces[i].functions[j].parameters) :
            \E t \in ParamTypePool :
                /\ t # newDoc.interfaces[i].functions[j].parameters[p].param_type
                /\ Edit([newDoc EXCEPT
                           !.interfaces[i].functions[j].parameters[p].param_type = t])

AddInterface ==
    \E x \in IfacePool :
        /\ x.name \notin Keys(newDoc.interfaces)
        /\ Edit([newDoc EXCEPT !.interfaces = Append(@, x)])

RemoveInterface ==
    \E i \in Ifaces : Edit([newDoc EXCEPT !.interfaces = RemoveAt(@, i)])

RenameInterface ==
    \E i \in Ifaces :
        /\ N_col \notin Keys(newDoc.interfaces)
        /\ Edit([newDoc EXCEPT !.interfaces[i].name = N_col])

AddType ==
    \E i \in Ifaces : \E t \in TypePool :
        /\ t.name \notin Keys(newDoc.interfaces[i].types)
        /\ Edit([newDoc EXCEPT !.interfaces[i].types = Append(@, t)])

RemoveType ==
    \E i \in Ifaces : \E j \in Types(i) :
        Edit([newDoc EXCEPT !.interfaces[i].types = RemoveAt(@, j)])

RenameType ==
    \E i \in Ifaces : \E j \in Types(i) :
        /\ N_lst \notin Keys(newDoc.interfaces[i].types)
        /\ Edit([newDoc EXCEPT !.interfaces[i].types[j].name = N_lst])

ChangeType ==
    \E i \in Ifaces : \E j \in Types(i) : \E k \in KindPool :
        /\ k # newDoc.interfaces[i].types[j].kind
        /\ Edit([newDoc EXCEPT !.interfaces[i].types[j].kind = k])

AddWorld ==
    \E w \in WorldPool :
        /\ w.name \notin Keys(newDoc.worlds)
        /\ Edit([newDoc EXCEPT !.worlds = Append(@, w)])

RemoveWorld ==
    \E j \in 1..Len(newDoc.worlds) : Edit([newDoc EXCEPT !.worlds = RemoveAt(@, j)])

\* a world of the new document exports something else
ChangeWorld ==
    \E j \in 1..Len(newDoc.worlds) :
        Edit([newDoc EXCEPT !.worlds[j].exports = IF @ = <<>> THEN <<N_api>> ELSE <<>>])

SetDocumentation ==
    \E i \in Ifaces :
        /\ newDoc.interfaces[i].documentation = None
        /\ Edit([newDoc EXCEPT !.interfaces[i].documentation = Some(N_docs)])

\* processor.check_compatibility(&oldDoc, &newDoc)
CallCheckCompatibility ==
    /\ ~checked
    /\ \E r \in CheckCompatibility(oldDoc, newDoc) : compat' = r
    /\ checked' = TRUE
    /\ UNCHANGED <<ext, report, vdoc, vresults, dir, batch, oldDoc, newDoc, steps>>

\* a caller's add_* call on the report
ApiCall(r) ==
    /\ steps < MaxSteps
    /\ compat' = r /\ steps' = steps + 1 /\ checked' = FALSE
    /\ UNCHANGED <<ext, report, vdoc, vresults, dir, batch, oldDoc, newDoc>>

CallAddBreakingChange == ApiCall(AddBreakingChange(compat, RemovedType(N_rec)))
CallAddAddition == ApiCall(AddAddition(compat, AddedWorld(N_w)))
CallAddModification ==
    ApiCall(AddModification(compat, UpdatedDocumentation(N_api, <<"interface">>)))

NextCompat ==
    \/ AddFunction \/ RemoveFunction \/ RenameFunction \/ ChangeParamType
    \/ AddInterface \/ RemoveInterface \/ RenameInterface
    \/ AddType \/ RemoveType \/ RenameType \/ ChangeType
    \/ AddWorld \/ RemoveWorld \/ ChangeWorld \/ SetDocumentation
    \/ CallCheckCompatibility
    \/ CallAddBreakingChange \/ CallAddAddition \/ CallAddModification

SpecCompat == InitCompat /\ [][NextCompat]_vars

\* how many entries of a report list satisfy P
Entries(list, P(_)) == Cardinality({x \in 1..Len(list) : P(list[x])})

\* C6: after any sequence of add_breaking_change, add_addition and
\* add_modification calls on a report created by new(), and in every report
\* check_compatibility returns, compatible is false if and only if
\* breaking_changes is non-empty.
C6_CompatibleIffNoBreaking ==
    (~compat.compatible) <=> (compat.breaking_changes # <<>>)

\* check_compatibility returned a report with a breaking change and an
\* addition
C6_WitnessCheckedBreaking ==
    /\ checked /\ steps > 0
    /\ compat.breaking_changes # <<>> /\ compat.additions # <<>>
    /\ ~compat.compatible

\* the interface of newDoc at position i has the functions of oldDoc's
\* followed by at least one function of a new name, and everything else in
\* the two documents is equal
OnlyFunctionsAddedTo(i) ==
    /\ i \in 1..Len(oldDoc.interfaces)
    /\ Len(newDoc.interfaces) = Len(oldDoc.interfaces)
    /\ LET of == oldDoc.interfaces[i].functions
           nf == newDoc.interfaces[i].functions
       IN  /\ Len(nf) > Len(of)
           /\ SubSeq(nf, 1, Len(of)) = of
           /\ \A j \in (Len(of) + 1)..Len(nf) :
                 /\ nf[j].name \notin Keys(of)
                 /\ \A k \in (Len(of) + 1)..Len(nf) : nf[k].name = nf[j].name => k = j
           /\ oldDoc = [newDoc EXCEPT !.interfaces[i].functions = of]

\* C7: when the new document differs from the old one only by k functions
\* added to an interface present in both, check_compatibility returns
\* compatible = true, no breaking changes and exactly k additions, one
\* AddedFunction per added function.
C7_AdditionOnlyIsCompatible ==
    checked =>
        \A i \in 1..Len(oldDoc.interfaces) :
            OnlyFunctionsAddedTo(i) =>
                LET of == oldDoc.interfaces[i].functions
                    nf == newDoc.interfaces[i].functions
                IN  /\ compat.compatible
                    /\ compat.breaking_changes = <<>>
                    /\ Len(compat.additions) = Len(nf) - Len(of)
                    /\ \A j \in (Len(of) + 1)..Len(nf) :
                          Entries(compat.additions,
                                  LAMBDA e : e = AddedFunction(oldDoc.interfaces[i].name,
                                                               nf[j].name)) = 1

\* the two documents are equal except for the type of parameter p of
\* function j of interface i
OnlyParamTypeChanged(i, j, p) ==
    /\ i \in 1..Len(oldDoc.interfaces) /\ i \in 1..Len(newDoc.interfaces)
    /\ j \in 1..Len(oldDoc.interfaces[i].functions)
    /\ j \in 1..Len(newDoc.interfaces[i].functions)
    /\ p \in 1..Len(oldDoc.interfaces[i].functions[j].parameters)
    /\ p \in 1..Len(newDoc.interfaces[i].functions[j].parameters)
    /\ oldDoc # newDoc
    /\ oldDoc = [newDoc EXCEPT !.interfaces[i].functions[j].parameters[p].param_type =
                    oldDoc.interfaces[i].functions[j].parameters[p].param_type]

\* C8: when a function present in both documents differs only in the type
\* of one parameter, check_compatibility returns compatible = false and
\* exactly one ChangedFunctionSignature for that function, whose
\* parameter_changes is one TypeChanged entry naming the parameter, with the
\* old and the new type rendered, and whose return_type_change is absent.
C8_ParamTypeChangeReported ==
    checked =>
        \A i \in 1..Len(oldDoc.interfaces) :
          \A j \in 1..Len(oldDoc.interfaces[i].functions) :
            \A p \in 1..Len(oldDoc.interfaces[i].functions[j].parameters) :
              OnlyParamTypeChanged(i, j, p) =>
                LET of == oldDoc.interfaces[i].functions[j]
                    nf == newDoc.interfaces[i].functions[j]
                    IsEntry(e) == /\ e.type = "ChangedFunctionSignature"
                                  /\ e.interface = oldDoc.interfaces[i].name
                                  /\ e.function = of.name
                IN  /\ ~compat.compatible
                    /\ Entries(compat.breaking_changes, IsEntry) = 1
                    /\ \A x \in 1..Len(compat.breaking_changes) :
                          IsEntry(compat.breaking_changes[x]) =>
                             /\ compat.breaking_changes[x].change.parameter_changes =
                                   <<[name |-> of.parameters[p].name,
                                      change_type |->
                                         [type |-> "TypeChanged",
                                          old_type |-> DebugKind(of.parameters[p].param_type.kind),
                                          new_type |-> DebugKind(nf.parameters[p].param_type.kind)]]>>
                             /\ compat.breaking_changes[x].change.return_type_change = None

\* the names that have exactly one definition among the types of doc
DefinedOnce(doc) ==
    {n \in Keys(AllTypes(doc)) :
        Cardinality({x \in 1..Len(AllTypes(doc)) : AllTypes(doc)[x].name = n}) = 1}

\* C9: for a type name defined in both documents, check_compatibility emits
\* a ModifiedTypeDefinition for it if and only if the two definitions differ
\* in kind discriminant or, for the same discriminant, in payload under deep
\* comparison; two structurally equal definitions of any kind emit nothing.
C9_ModifiedIffStructurallyDifferent ==
    checked =>
        \A n \in DefinedOnce(oldDoc) \cap DefinedOnce(newDoc) :
            (Entries(compat.breaking_changes,
                     LAMBDA e : e.type = "ModifiedTypeDefinition" /\ e.type_name = n) > 0)
              <=> (MapGet(AllTypes(oldDoc), n).kind # MapGet(AllTypes(newDoc), n).kind)

\* the entries of the report equal to e are one if present holds, none
\* otherwise
OneIff(list, e, present) ==
    Entries(list, LAMBDA x : x = e) = (IF present THEN 1 ELSE 0)

NamePool == {N_api, N_aux, N_col, N_get, N_del, N_create, N_rec, N_res, N_lst}

\* C10: check_compatibility classifies by name only: one RemovedInterface
\* per interface name only in old and one AddedInterface per name only in
\* new; for an interface in both, one RemovedFunction per function name only
\* in old and one AddedFunction per name only in new; one RemovedType per
\* type name only in old and one AddedType per name only in new; a rename is
\* one removal plus one addition.
C10_ClassifiedByName ==
    checked =>
        LET oi == Keys(oldDoc.interfaces)
            ni == Keys(newDoc.interfaces)
            ot == Keys(AllTypes(oldDoc))
            nt == Keys(AllTypes(newDoc))
        IN  \A n \in NamePool :
              /\ OneIff(compat.breaking_changes, RemovedInterface(n), n \in oi \ ni)
              /\ OneIff(compat.additions, AddedInterface(n), n \in ni \ oi)
              /\ OneIff(compat.breaking_changes, RemovedType(n), n \in ot \ nt)
              /\ OneIff(compat.additions, AddedType(n), n \in nt \ ot)
              /\ \A f \in NamePool :
                    LET both == n \in oi \cap ni
                        of == IF both THEN Keys(MapGet(oldDoc.interfaces, n).functions) ELSE {}
                        nf == IF both THEN Keys(MapGet(newDoc.interfaces, n).functions) ELSE {}
                    IN  /\ OneIff(compat.breaking_changes, RemovedFunction(n, f), f \in of \ nf)
                        /\ OneIff(compat.additions, AddedFunction(n, f), f \in nf \ of)

\* one edit, a rename of a function, of a type or of an interface, was
\* checked: the report holds a removal and an addition of the same level
C10_WitnessRename ==
    /\ checked /\ steps = 1
    /\ \/ \E i \in 1..Len(oldDoc.interfaces) :
             /\ OneIff(compat.breaking_changes,
                       RemovedFunction(oldDoc.interfaces[i].name, N_get), TRUE)
             /\ OneIff(compat.additions,
                       AddedFunction(oldDoc.interfaces[i].name, N_create), TRUE)
       \/ /\ OneIff(compat.breaking_changes, RemovedType(N_res), TRUE)
          /\ OneIff(compat.additions, AddedType(N_lst), TRUE)

\* the new document with the worlds of the old one put back as they were,
\* followed by the worlds only the new document has
WorldsRestored ==
    [newDoc EXCEPT !.worlds =
        oldDoc.worlds \o SelectSeq(newDoc.worlds, LAMBDA w : w.name \notin Keys(oldDoc.worlds))]

\* C11: a world present only in the new document yields exactly one
\* AddedWorld; a world removed from the new document, or present in both
\* with changed imports or exports, adds no entry to any list and leaves
\* compatible as it is: the report is one that the same documents yield with
\* the old worlds untouched.
C11_OnlyAddedWorldsTracked ==
    checked =>
        /\ \A n \in NamePool \cup {N_w} :
              OneIff(compat.additions, AddedWorld(n),
                     n \in Keys(newDoc.worlds) \ Keys(oldDoc.worlds))
        /\ compat \in CheckCompatibility(oldDoc, WorldsRestored)

\* a world of the old document was changed or removed, another was added,
\* and the pair was checked
C11_WitnessChangedAndAdded ==
    /\ checked
    /\ \E i \in 1..Len(oldDoc.worlds) :
          \/ oldDoc.worlds[i].name \notin Keys(newDoc.worlds)
          \/ /\ oldDoc.worlds[i].name \in Keys(newDoc.worlds)
             /\ MapGet(newDoc.worlds, oldDoc.worlds[i].name) # oldDoc.worlds[i]
    /\ \E e \in {compat.additions[x] : x \in 1..Len(compat.additions)} :
          e.type = "AddedWorld"

----------------------------------------------------------------------------
(* Specification SpecDeps: a document whose record types are given fields  *)
(* that reference one another, and extract_type_dependencies of it.        *)

MaxDepFields == 3

Ref(n) == Ty(N_anonymous, Reference(n))

\* interface api with the empty records a, b and rec
DD_types ==
    Doc(1, N_pkg, V_version,
        <<Iface(N_api, <<>>,
                <<Ty(N_a, RecordOf(<<>>)), Ty(N_b, RecordOf(<<>>)), Ty(N_rec, RecordOf(<<>>))>>,
                None)>>,
        <<>>, 100, 1)

\* the same with get: func(id: a) -> list<rec>
DD_func ==
    [DD_types EXCEPT !.interfaces[1].functions =
        <<Func(N_get, <<Param(N_id, Ref(N_a))>>, Some(Ty(N_anonymous, ListOf(Ref(N_rec)))))>>]

DepTypePool ==
    {Ref(N_a), Ref(N_b), Ref(N_rec), Ty(N_anonymous, ListOf(Ref(N_a))),
     Ty(N_anonymous, ResultOf(Some(Ref(N_b)), None))}

DepFieldCount ==
    SumSeq([i \in 1..Len(ddoc.interfaces[1].types) |->
               Len(ddoc.interfaces[1].types[i].kind.fields)])

InitDeps ==
    /\ ddoc \in {DD_types, DD_func} /\ graph = None
    /\ StepIdle /\ ParIdle /\ LateIdle
    /\ BaseIdle

\* a record of the document gets one more field
AddRefField ==
    /\ DepFieldCount < MaxDepFields
    /\ \E i \in 1..Len(ddoc.interfaces[1].types) : \E t \in DepTypePool :
          ddoc' = [ddoc EXCEPT !.interfaces[1].types[i].kind.fields =
                      Append(@, Field(N_id, t))]
    /\ graph' = None /\ xref' = None
    /\ UNCHANGED <<base, stepVars, par, cli, session, mem, calls>>

\* processor.extract_type_dependencies(&ddoc)
CallExtractTypeDependencies ==
    /\ graph = None
    /\ graph' = Some(ExtractTypeDependencies(ddoc))
    /\ UNCHANGED <<base, ddoc, stepVars, par, lateVars>>

\* TypeReferenceValidator::new().validate_document(&ddoc)
CallValidateDocumentReferences ==
    /\ xref = None
    /\ xref' = Some(ValidateDocumentReferences(ddoc))
    /\ UNCHANGED <<base, depVars, stepVars, par, cli, session, mem, calls>>

NextDeps == AddRefField \/ CallExtractTypeDependencies \/ CallValidateDocumentReferences

SpecDeps == InitDeps /\ [][NextDeps]_vars

RECURSIVE Closure(_, _)
\* the nodes reachable from the set S along the edges E
Closure(E, S) ==
    LET S2 == S \cup {E[i].to : i \in {j \in 1..Len(E) : E[j].from \in S}}
    IN  IF S2 = S THEN S ELSE Closure(E, S2)

\* the edges that lie on a cycle
OnCycle(E) == {i \in 1..Len(E) : E[i].from \in Closure(E, {E[i].to})}

\* the only cycle of the graph is one edge A -> B and one edge B -> A
TwoTypeCycle(E, A, B) ==
    \E i, j \in 1..Len(E) :
        /\ OnCycle(E) = {i, j}
        /\ E[i].from = A /\ E[i].to = B
        /\ E[j].from = B /\ E[j].to = A

HasEdge(E, a, b) == \E i \in 1..Len(E) : E[i].from = a /\ E[i].to = b

\* cycle is a directed cycle of E without a repeated node
GenuineCycle(E, cycle) ==
    /\ cycle # <<>>
    /\ \A i, j \in 1..Len(cycle) : i # j => cycle[i] # cycle[j]
    /\ \A i \in 1..(Len(cycle) - 1) : HasEdge(E, cycle[i], cycle[i + 1])
    /\ HasEdge(E, cycle[Len(cycle)], cycle[1])

\* C23: every cycle recorded in circular_dependencies is a genuine directed
\* cycle of the graph's edges: it has no repeated node, each consecutive
\* pair of its nodes is joined by an edge, and an edge leads from its last
\* node back to its first.
C23_RecordedCyclesAreGenuine ==
    graph # None =>
        \A c \in 1..Len(graph[1].circular_dependencies) :
            GenuineCycle(graph[1].edges, graph[1].circular_dependencies[c].cycle)

\* a cycle of three nodes was recorded in a graph with a node outside it
C23_WitnessThreeNodeCycle ==
    /\ graph # None
    /\ \E c \in 1..Len(graph[1].circular_dependencies) :
          /\ Len(graph[1].circular_dependencies[c].cycle) = 3
          /\ Len(graph[1].nodes) > 3


\* C26: check_compatibility of a document with itself reports compatible =
\* true with empty breaking_changes, additions and modifications, whatever
\* type kinds its functions and type definitions use.
C26_SelfCompatible ==
    (checked /\ oldDoc = newDoc) =>
        /\ compat.compatible
        /\ compat.breaking_changes = <<>>
        /\ compat.additions = <<>>
        /\ compat.modifications = <<>>


\* C27: check_compatibility applied twice to the same pair of documents
\* yields the same sequence of entries in breaking_changes and in additions:
\* the order of the reported changes does not depend on the iteration order
\* of the name maps built from the documents.
C27_ReportOrderStable ==
    checked =>
        \A second \in CheckCompatibility(oldDoc, newDoc) :
            /\ second.breaking_changes = compat.breaking_changes
            /\ second.additions = compat.additions

\* the names of the types the document defines in its interfaces
OwnTypeNames(doc) == {AllTypes(doc)[i].name : i \in 1..Len(AllTypes(doc))}

\* C28: validate_document emits no TYPE_REFERENCE_UNDEFINED issue for a
\* Reference whose name is the bare name of a type defined in an interface
\* of the same document.
C28_OwnTypesResolve ==
    xref # None =>
        \A i \in 1..Len(xref[1]) :
            xref[1][i].code = "CROSS_REF_001"
               => xref[1][i].args[1] \notin OwnTypeNames(ddoc)

----------------------------------------------------------------------------
(* Specification SpecNaming: a document that functions, types and an       *)
(* interface are added to, validated under every configuration.            *)

MaxNamed == 2

\* WitValidator::new() / strict() / lenient() followed by
\* with_platform_checks(plat).with_performance_checks(perf)
Configured(c) ==
    [Preset(c.preset) EXCEPT !.platform_checks = c.plat, !.performance_checks = c.perf]

Configs ==
    [preset : {"strict", "default", "lenient"}, plat : BOOLEAN, perf : BOOLEAN]

NoRuns == [c \in Configs |-> None]

\* interface api { get: func(id: u32) -> string; record rec { a: u32 } }
VN_base ==
    Doc(1, N_pkg, V_version,
        <<Iface(N_api, <<F_get>>, <<Ty(N_rec, RecordOf(<<Field(N_a, T_u32)>>))>>, None)>>,
        <<>>, 100, 1)

\* option<option<option<option<option<option<u8>>>>>>
K_deep ==
    OptionOf(Ty(N_anonymous, OptionOf(Ty(N_anonymous, OptionOf(Ty(N_anonymous,
        OptionOf(Ty(N_anonymous, OptionOf(Ty(N_anonymous, OptionOf(T_u8)))))))))))

\* col is defined nowhere
NamingKindPool ==
    {RecordOf(<<Field(N_a, T_u32)>>), ListOf(T_u8), Reference(N_col), K_deep, VariantOf(<<>>)}

NamingParamsPool ==
    {<<Param(N_id, T_u32)>>, <<Param(N_id, Ty(N_anonymous, Reference(N_col)))>>,
     <<Param(N_id, T_u32), Param(N_id, T_u32)>>}

\* the interfaces, functions and types of a document
NamedCount(doc) ==
    SumSeq([i \in 1..Len(doc.interfaces) |->
               1 + Len(doc.interfaces[i].functions) + Len(doc.interfaces[i].types)])

InitNaming ==
    /\ vdoc = VN_base /\ vresults = NoRuns
    /\ report = NewValidationReport
    /\ dir = <<>> /\ batch = None
    /\ oldDoc = IdleDoc /\ newDoc = IdleDoc /\ steps = 0
    /\ compat = NewCompatibilityReport /\ checked = FALSE
    /\ ExtIdle

\* the document becomes d; earlier reports no longer describe it
NamingEdit(d) ==
    /\ NamedCount(vdoc) < NamedCount(VN_base) + MaxNamed
    /\ vdoc' = d /\ vresults' = NoRuns
    /\ UNCHANGED <<ext, report, dir, batch, oldDoc, newDoc, steps, compat, checked>>

\* the last interface gets a type named rec, get or lst
AddTypeNamed ==
    \E n \in {N_rec, N_get, N_lst} : \E k \in NamingKindPool :
        NamingEdit([vdoc EXCEPT !.interfaces[Len(vdoc.interfaces)].types =
                       Append(@, Ty(n, k))])

\* the last interface gets a function named get or rec
AddFunctionNamed ==
    \E n \in {N_get, N_rec} : \E ps \in NamingParamsPool :
        NamingEdit([vdoc EXCEPT !.interfaces[Len(vdoc.interfaces)].functions =
                       Append(@, Func(n, ps, None))])

\* the document gets the empty interface aux
AddInterfaceNamed ==
    /\ N_aux \notin Keys(vdoc.interfaces)
    /\ NamingEdit([vdoc EXCEPT !.interfaces = Append(@, Iface(N_aux, <<>>, <<>>, None))])

\* validate(&vdoc) by a validator of each configuration
CallValidateConfigured ==
    /\ vresults = NoRuns
    /\ vresults' = [c \in Configs |-> Some(Validate(Configured(c), vdoc))]
    /\ UNCHANGED <<ext, report, vdoc, dir, batch, oldDoc, newDoc, steps, compat, checked>>

NextNaming ==
    AddTypeNamed \/ AddFunctionNamed \/ AddInterfaceNamed \/ CallValidateConfigured

SpecNaming == InitNaming /\ [][NextNaming]_vars

Validated == vresults # NoRuns /\ DOMAIN vresults = Configs

\* how many types / functions of interface i are named n
TypesNamed(i, n) ==
    Cardinality({x \in 1..Len(vdoc.interfaces[i].types) : vdoc.interfaces[i].types[x].name = n})
FunctionsNamed(i, n) ==
    Cardinality({x \in 1..Len(vdoc.interfaces[i].functions) :
                    vdoc.interfaces[i].functions[x].name = n})

\* the DUPLICATE_NAME errors of report r for name n of interface i
DuplicateNameErrors(r, i, n) ==
    Entries(r.errors, LAMBDA e : /\ e.code = "DUPLICATE_NAME"
                                 /\ e.args = <<vdoc.interfaces[i].name, n>>)

\* C13: an interface defining two types with the same name yields exactly
\* one DUPLICATE_NAME error and is_valid() = false; k types sharing a name
\* yield k-1 DUPLICATE_NAME errors.
C13_DuplicateTypesReported ==
    Validated =>
        \A c \in Configs : \A i \in 1..Len(vdoc.interfaces) : \A n \in {N_rec, N_get} :
            (TypesNamed(i, n) >= 2 /\ FunctionsNamed(i, n) = 0) =>
                /\ DuplicateNameErrors(vresults[c][1], i, n) = TypesNamed(i, n) - 1
                /\ ~IsValid(vresults[c][1])

\* three types named rec in one interface were validated
C13_WitnessThreeTypes ==
    /\ Validated
    /\ TypesNamed(1, N_rec) = 3 /\ FunctionsNamed(1, N_rec) = 0
    /\ DuplicateNameErrors(vresults[[preset |-> "default", plat |-> TRUE, perf |-> TRUE]][1],
                           1, N_rec) = 2

\* C14: functions and types of one interface share a single namespace: an
\* interface that defines a function and a type with the same name yields a
\* DUPLICATE_NAME error.
C14_SharedNamespace ==
    Validated =>
        \A c \in Configs : \A i \in 1..Len(vdoc.interfaces) : \A n \in {N_rec, N_get} :
            (TypesNamed(i, n) >= 1 /\ FunctionsNamed(i, n) >= 1) =>
                DuplicateNameErrors(vresults[c][1], i, n) >= 1

RECURSIVE RefNames(_)
\* the names of the Reference kinds inside a type
RefNames(t) ==
    LET k == t.kind
    IN  CASE k.tag = "Reference" -> {k.name}
          [] k.tag \in {"List", "Option"} -> RefNames(k.elem)
          [] k.tag = "Result" ->
                UNION {RefNames((k.ok \o k.err)[x]) : x \in 1..Len(k.ok \o k.err)}
          [] k.tag = "Tuple" -> UNION {RefNames(k.elems[x]) : x \in 1..Len(k.elems)}
          [] k.tag = "Record" ->
                UNION {RefNames(k.fields[x].field_type) : x \in 1..Len(k.fields)}
          [] k.tag = "Variant" ->
                UNION {RefNames(k.cases[x].payload[1]) :
                          x \in {y \in 1..Len(k.cases) : IsSome(k.cases[y].payload)}}
          [] OTHER -> {}

\* the names referenced from the parameters, return types and type
\* definitions of a document that no type of the document defines
UnresolvedReferences(doc) ==
    LET ofFunction(f) ==
            UNION {RefNames(f.parameters[x].param_type) : x \in 1..Len(f.parameters)}
            \cup UNION {RefNames(f.return_type[x]) : x \in 1..Len(f.return_type)}
        ofInterface(i) ==
            UNION {ofFunction(i.functions[x]) : x \in 1..Len(i.functions)}
            \cup UNION {RefNames(i.types[x]) : x \in 1..Len(i.types)}
    IN  UNION {ofInterface(doc.interfaces[x]) : x \in 1..Len(doc.interfaces)}
        \ Keys(AllTypes(doc))

\* C15: validate reports an error for every Reference(name), reachable from
\* a function parameter, a return type or a type definition, that names
\* neither a primitive nor a defined type: a document with such a reference
\* has is_valid() = false.
C15_UnresolvedReferenceIsError ==
    Validated =>
        \A c \in Configs :
            UnresolvedReferences(vdoc) # {} => ~IsValid(vresults[c][1])

\* the issues of a list whose code is not code
Without(list, code) == SelectSeq(list, LAMBDA e : e.code # code)

\* C16: the errors list and is_valid() that validate returns are the same
\* whether platform_checks and performance_checks are enabled or not: those
\* checks add only UNBOUNDED_LIST info and DEEP_TYPE_NESTING warnings.
C16_AdvisoryChecksNeverFlipValidity ==
    Validated =>
        \A c \in Configs :
            LET on == vresults[c][1]
                off == vresults[[c EXCEPT !.plat = FALSE, !.perf = FALSE]][1]
            IN  /\ on.errors = off.errors
                /\ IsValid(on) = IsValid(off)
                /\ Without(on.warnings, "DEEP_TYPE_NESTING") = off.warnings
                /\ Without(on.info, "UNBOUNDED_LIST") = off.info

\* a document with a list type and a deeply nested type was validated with
\* the checks on and off
C16_WitnessAdvisoryIssues ==
    /\ Validated
    /\ LET on == vresults[[preset |-> "default", plat |-> TRUE, perf |-> TRUE]][1]
           off == vresults[[preset |-> "default", plat |-> FALSE, perf |-> FALSE]][1]
       IN  /\ \E x \in 1..Len(on.info) : on.info[x].code = "UNBOUNDED_LIST"
           /\ \E x \in 1..Len(on.warnings) : on.warnings[x].code = "DEEP_TYPE_NESTING"
           /\ Len(off.info) < Len(on.info) /\ Len(off.warnings) < Len(on.warnings)
           /\ IsValid(on)

----------------------------------------------------------------------------
(* parse_file and memory_constrained_validate, statement by statement *)

MaxDiskFiles == 3

\* the kinds of file written: .wit files below, at and above the
\* memory-constrained parser's max_file_size, one that fails validation,
\* one with a syntax error, and a file with another extension
StepFileKinds ==
    {[wit |-> TRUE, size |-> 100, syntax_ok |-> TRUE, doc |-> VD_ok],
     [wit |-> TRUE, size |-> 100, syntax_ok |-> TRUE, doc |-> VD_emptyVariant],
     [wit |-> TRUE, size |-> 100, syntax_ok |-> FALSE, doc |-> IdleDoc],
     [wit |-> TRUE, size |-> MemoryConstrainedMaxFileSize, syntax_ok |-> TRUE,
      doc |-> VD_ok],
     [wit |-> TRUE, size |-> MemoryConstrainedMaxFileSize + 1, syntax_ok |-> TRUE,
      doc |-> VD_ok],
     [wit |-> FALSE, size |-> 100, syntax_ok |-> FALSE, doc |-> IdleDoc]}

InitSteps ==
    /\ BaseIdle /\ DepIdle /\ ParIdle /\ LateIdle
    /\ run = NoCall /\ events = <<>>

\* a file is written to the directory before any call is made
CreateFile ==
    /\ run.pc = "idle"
    /\ Len(dir) < MaxDiskFiles
    /\ \E k \in StepFileKinds :
          dir' = Append(dir, [path |-> Len(dir) + 1, wit |-> k.wit, size |-> k.size,
                              syntax_ok |-> k.syntax_ok, doc |-> k.doc])
    /\ UNCHANGED <<report, vdoc, vresults, batch, oldDoc, newDoc, steps, compat,
                   checked, ext>>

stepFrame == <<report, vdoc, vresults, dir, batch, oldDoc, newDoc, steps, compat,
               checked, depVars, par, lateVars>>

\* parser.parse_file(path) is called; path Len(dir) + 1 names no file
CallParseFile ==
    /\ run.pc \in {"idle", "done"}
    /\ \E parser \in {ParserNew, ParserMemoryConstrained} :
       \E path \in 1..(Len(dir) + 1) :
          run' = [Frame("parse_file", "pf_exists", parser) EXCEPT !.path = path]
    /\ events' = <<>>
    /\ UNCHANGED stepFrame

\* parse_file: if !path.exists() { return Err(FileRead) }
PfCheckExists ==
    /\ run.pc = "pf_exists"
    /\ run' = IF run.path \in 1..Len(dir)
              THEN [run EXCEPT !.pc = "pf_metadata"]
              ELSE ParseFileReturns(run, Err([kind |-> "FileRead", path |-> run.path]))
    /\ UNCHANGED <<events, stepFrame>>

\* parse_file: fs::metadata(path), then the test of file_size
PfCheckSize ==
    /\ run.pc = "pf_metadata"
    /\ events' = Append(events, [op |-> "metadata", path |-> run.path])
    /\ run' = IF SizeRejected(run.parser, dir[run.path].size)
              THEN ParseFileReturns(run, Err([kind |-> "ConfigError", path |-> run.path]))
              ELSE [run EXCEPT !.pc = "pf_read"]
    /\ UNCHANGED stepFrame

\* parse_file: fs::read_to_string(path)
PfReadContent ==
    /\ run.pc = "pf_read"
    /\ events' = Append(events, [op |-> "read_to_string", path |-> run.path])
    /\ run' = [run EXCEPT !.pc = "pf_parse", !.content = TRUE]
    /\ UNCHANGED stepFrame

\* parse_file: resolve.push_str(path, &content) and the rest of the function
PfPushStr ==
    /\ run.pc = "pf_parse"
    /\ events' = Append(events, [op |-> "push_str", path |-> run.path])
    /\ run' = ParseFileReturns(run, PushStrAndExtract(dir[run.path]))
    /\ UNCHANGED stepFrame

\* memory_constrained_validate(path, max_memory_mb) is called and
\* parse_directory tests path.is_dir() and finds the .wit files
CallMemoryConstrainedValidate ==
    /\ run.pc \in {"idle", "done"}
    /\ \E isDir \in BOOLEAN :
          run' = IF ~isDir
                 THEN [Frame("memory_constrained_validate", "done",
                             ParserMemoryConstrained)
                         EXCEPT !.result = Some(Err([kind |-> "DirectoryRead",
                                                     path |-> "dir"]))]
                 ELSE LET wit_files == FindWitFiles(dir)
                      IN  [Frame("memory_constrained_validate", "pd_loop",
                                 ParserMemoryConstrained)
                             EXCEPT !.queue = [i \in 1..Len(wit_files) |->
                                                  wit_files[i].path]]
    /\ events' = <<>>
    /\ UNCHANGED stepFrame

\* parse_directory: for wit_file in wit_files { match self.parse_file(..) };
\* after the last file Ok(documents) is returned and becomes the iterator of
\* memory_constrained_validate's loop
PdNextFile ==
    /\ run.pc = "pd_loop"
    /\ run' = IF run.queue = <<>>
              THEN [run EXCEPT !.pc = "mv_loop", !.iter = run.documents,
                               !.documents = <<>>]
              ELSE [run EXCEPT !.pc = "pf_exists", !.path = Head(run.queue),
                               !.queue = Tail(run.queue)]
    /\ UNCHANGED <<events, stepFrame>>

\* memory_constrained_validate: for document in wit_files
MvNextDocument ==
    /\ run.pc = "mv_loop"
    /\ run' = IF run.iter = <<>>
              THEN [run EXCEPT !.pc = "done", !.result = Some(Ok(TRUE))]
              ELSE [run EXCEPT !.pc = "mv_validate", !.current = Some(Head(run.iter)),
                               !.iter = Tail(run.iter)]
    /\ UNCHANGED <<events, stepFrame>>

\* memory_constrained_validate: validator.validate(&document)?, the test of
\* is_valid() and the end of the iteration, where the document is dropped
MvValidate ==
    /\ run.pc = "mv_validate"
    /\ events' = Append(events, [op |-> "validate", path |-> run.current[1].path])
    /\ run' = IF ~IsValid(Validate(ValidatorLenient, run.current[1]))
              THEN [run EXCEPT !.pc = "done", !.result = Some(Ok(FALSE)),
                               !.current = None, !.iter = <<>>]
              ELSE [run EXCEPT !.pc = "mv_loop", !.current = None]
    /\ UNCHANGED stepFrame

NextSteps ==
    \/ CreateFile \/ CallParseFile \/ PfCheckExists \/ PfCheckSize
    \/ PfReadContent \/ PfPushStr \/ CallMemoryConstrainedValidate
    \/ PdNextFile \/ MvNextDocument \/ MvValidate

SpecSteps == InitSteps /\ [][NextSteps]_vars

\* the parsed documents the call holds
Resident == run.documents \o run.iter \o run.current

\* C17: during memory_constrained_validate at most one parsed document is
\* resident at a time: a file is parsed only after the document of the
\* previous one was validated and released.
C17_OneDocumentResident ==
    run.op = "memory_constrained_validate" => Len(Resident) <= 1

\* the file operations made on content: reading it, handing it to the
\* external parser
ContentOps == {"read_to_string", "push_str"}

\* C20: parse_file rejects a file whose size exceeds max_file_size before its
\* content is read or handed to the external parser, and never rejects a
\* file for its size when the size is at most max_file_size.
C20_SizeCheckedBeforeRead ==
    /\ \A i \in 1..Len(events) :
          events[i].op \in ContentOps
             => dir[events[i].path].size <= run.parser.max_file_size
    /\ (run.op = "parse_file" /\ run.pc = "done" /\ run.path \in 1..Len(dir))
          => LET r == run.result[1]
                 rejected == ~r.ok /\ r.error.kind = "ConfigError"
             IN  /\ rejected <=> dir[run.path].size > run.parser.max_file_size
                 /\ rejected => events = <<[op |-> "metadata", path |-> run.path]>>

\* parse_file returned the size error for a file one byte above the limit,
\* in a directory that also holds a file of exactly the limit
C20_WitnessOversizeRejected ==
    /\ run.op = "parse_file" /\ run.pc = "done" /\ run.path \in 1..Len(dir)
    /\ run.parser = ParserMemoryConstrained
    /\ dir[run.path].size = MemoryConstrainedMaxFileSize + 1
    /\ ~run.result[1].ok /\ run.result[1].error.kind = "ConfigError"
    /\ \E i \in 1..Len(dir) : dir[i].size = MemoryConstrainedMaxFileSize

----------------------------------------------------------------------------
(* batch_process_parallel over the threads of the pool *)

MaxSources == 2
MaxPaths == 2
MaxThreads == 2

\* the kinds of file written: a valid one, one that parses and fails
\* validation, one with a syntax error
ParFileKinds ==
    {[wit |-> TRUE, size |-> 100, syntax_ok |-> TRUE, doc |-> VD_ok],
     [wit |-> TRUE, size |-> 100, syntax_ok |-> TRUE, doc |-> VD_emptyVariant],
     [wit |-> TRUE, size |-> 100, syntax_ok |-> FALSE, doc |-> IdleDoc]}

InitParallel ==
    /\ BaseIdle /\ DepIdle /\ StepIdle /\ LateIdle
    /\ par = None

parFrame == <<report, vdoc, vresults, dir, batch, oldDoc, newDoc, steps, compat,
              checked, depVars, stepVars, lateVars>>

\* a file is written before the call
WriteSource ==
    /\ par = None
    /\ Len(dir) < MaxSources
    /\ \E k \in ParFileKinds :
          dir' = Append(dir, [path |-> Len(dir) + 1, wit |-> k.wit, size |-> k.size,
                              syntax_ok |-> k.syntax_ok, doc |-> k.doc])
    /\ UNCHANGED <<report, vdoc, vresults, batch, oldDoc, newDoc, steps, compat,
                   checked, ext>>

\* the path lists handed over: paths of files and the path Len(dir) + 1 that
\* names no file, in any order, repeated or not
PathLists == UNION {[1..n -> 1..(Len(dir) + 1)] : n \in 0..MaxPaths}

\* batch_process_parallel(paths, &parser, &validator) is called
CallBatchProcessParallel ==
    /\ par = None
    /\ \E paths \in PathLists : par' = Some(ParallelCall(paths))
    /\ UNCHANGED parFrame

Running == {i \in 1..Len(par[1].items) : par[1].items[i].state = "running"}

\* a thread of the pool that is free takes an item
ThreadTakes ==
    /\ par # None
    /\ Cardinality(Running) < MaxThreads
    /\ \E i \in 1..Len(par[1].items) :
          /\ par[1].items[i].state = "todo"
          /\ par' = Some([par[1] EXCEPT !.items[i].state = "running"])
    /\ UNCHANGED parFrame

\* the thread runs the closure on its item
ThreadFinishes ==
    /\ par # None
    /\ \E i \in Running :
          par' = Some([par[1] EXCEPT
                         !.items[i] =
                            [state |-> "done",
                             out |-> FilterMapReport(
                                        ParseAndValidateWithConfig(
                                           dir, par[1].paths[i], ParserNew,
                                           ValidatorNew))]])
    /\ UNCHANGED parFrame

\* collect() returns once every item is finished
Collect ==
    /\ par # None
    /\ par[1].result = None
    /\ \A i \in 1..Len(par[1].items) : par[1].items[i].state = "done"
    /\ par' = Some([par[1] EXCEPT !.result = Some(ParCollect(par[1].items))])
    /\ UNCHANGED parFrame

NextParallel ==
    WriteSource \/ CallBatchProcessParallel \/ ThreadTakes \/ ThreadFinishes \/ Collect

SpecParallel == InitParallel /\ [][NextParallel]_vars

\* batch_process_parallel has returned
Collected == par # None /\ par[1].result # None

\* the paths of the call that parse_and_validate_with_config succeeds on
SucceedingPaths ==
    SelectSeq(par[1].paths,
              LAMBDA p : p \in 1..Len(dir) /\ dir[p].syntax_ok
                         /\ dir[p].size <= ParserNew.max_file_size)

\* C18: batch_process_parallel returns exactly one ProcessingReport per path
\* on which parse_and_validate_with_config succeeds, the same reports as
\* batch_process_sequential returns; a failing path contributes no report
\* and does not affect the others.
C18_ParallelMatchesSequential ==
    Collected =>
        LET out == par[1].result[1]
        IN  /\ out = BatchProcessSequential(dir, par[1].paths, ParserNew, ValidatorNew)
            /\ Len(out) = Len(SucceedingPaths)
            /\ \A i \in 1..Len(out) :
                  /\ out[i].document.path = SucceedingPaths[i]
                  /\ Ok(out[i]) = ParseAndValidateWithConfig(
                                     dir, SucceedingPaths[i], ParserNew, ValidatorNew)

\* a call with a succeeding path followed by a path that names no file
\* has returned one report
C18_WitnessFailingAndSucceeding ==
    /\ Collected
    /\ Len(par[1].paths) = 2
    /\ Len(par[1].result[1]) = 1
    /\ par[1].paths[2] \notin 1..Len(dir)
    /\ par[1].result[1][1].success

\* the codes validate_function reports and the codes reported for a type
FunctionCodes ==
    {"INVALID_FUNCTION_NAME", "TOO_MANY_PARAMETERS", "DUPLICATE_PARAMETER"}
TypeCodes ==
    {"EMPTY_RECORD", "DUPLICATE_FIELD", "EMPTY_VARIANT", "DUPLICATE_CASE",
     "EMPTY_ENUM", "DUPLICATE_ENUM_VALUE", "TYPE_TOO_DEEP", "INVALID_TYPE_NAME",
     "UNBOUNDED_LIST", "DEEP_TYPE_NESTING"}

\* the places <<i, k>> of the traversal an issue can be about: interface i
\* and one of its functions (k = 1) or one of its types (k = 2), found by
\* the names in the issue's message
Owners(doc, e) ==
    {o \in (1..Len(doc.interfaces)) \X {1, 2} :
        LET iface == doc.interfaces[o[1]]
            fnames == {iface.functions[x].name : x \in 1..Len(iface.functions)}
            tnames == {iface.types[x].name : x \in 1..Len(iface.types)}
            mine == IF o[2] = 1 THEN fnames ELSE tnames
            codes == IF o[2] = 1 THEN FunctionCodes ELSE TypeCodes
        IN  \/ e.code \in codes /\ e.args[1] \in mine
            \/ /\ e.code = "DUPLICATE_NAME"
               /\ e.args[1] = iface.name
               /\ e.args[2] \in mine}

\* place a is not after place b in the traversal
NotAfter(a, b) == a[1] < b[1] \/ (a[1] = b[1] /\ a[2] <= b[2])

\* the issues of a list that are about exactly one place come in the order
\* of the traversal
InTraversalOrder(doc, issues) ==
    \A x, y \in 1..Len(issues) :
        (x < y /\ Cardinality(Owners(doc, issues[x])) = 1
               /\ Cardinality(Owners(doc, issues[y])) = 1)
           => \A a \in Owners(doc, issues[x]) : \A b \in Owners(doc, issues[y]) :
                 NotAfter(a, b)

\* C19: two runs of validate on the same document under the same
\* configuration return the same sequences of issues in errors, warnings and
\* info, and the issues follow the traversal order: interfaces in
\* declaration order and, within an interface, the issues of its functions
\* before the issues of its types.
C19_StableTraversalOrder ==
    Validated =>
        \A c \in Configs :
            LET first == vresults[c][1]
                second == Validate(Configured(c), vdoc)
            IN  /\ first.errors = second.errors
                /\ first.warnings = second.warnings
                /\ first.info = second.info
                /\ InTraversalOrder(vdoc, first.errors)
                /\ InTraversalOrder(vdoc, first.warnings)
                /\ InTraversalOrder(vdoc, first.info)

----------------------------------------------------------------------------
(* The validate command over a directory of files *)

MaxCliFiles == 2

\* interface api { 9x: func(id: u32) }: only the naming rules object
VD_badFunctionName ==
    Doc(1, N_pkg, V_version,
        <<Iface(N_api, <<Func(N_badIdent, <<Param(N_id, T_u32)>>, None)>>, <<>>, None)>>,
        <<>>, 100, 1)

CliFileKinds ==
    {[wit |-> TRUE, size |-> 100, syntax_ok |-> TRUE, doc |-> VD_ok],
     [wit |-> TRUE, size |-> 100, syntax_ok |-> TRUE, doc |-> VD_badFunctionName],
     [wit |-> TRUE, size |-> 100, syntax_ok |-> TRUE, doc |-> VD_emptyVariant],
     [wit |-> TRUE, size |-> 100, syntax_ok |-> FALSE, doc |-> IdleDoc]}

InitCli ==
    /\ BaseIdle /\ DepIdle /\ StepIdle /\ ParIdle
    /\ cli = None /\ session = None /\ xref = None /\ mem = None /\ calls = <<>>

\* a file is written; an earlier run no longer describes the directory
WriteCliFile ==
    /\ Len(dir) < MaxCliFiles
    /\ \E k \in CliFileKinds :
          dir' = Append(dir, [path |-> Len(dir) + 1, wit |-> k.wit, size |-> k.size,
                              syntax_ok |-> k.syntax_ok, doc |-> k.doc])
    /\ cli' = None
    /\ UNCHANGED <<report, vdoc, vresults, batch, oldDoc, newDoc, steps, compat,
                   checked, depVars, stepVars, par, session, xref, mem, calls>>

\* wit-processor validate <path> [--strict] [--lenient] [--max-memory N]
CallValidateCommand ==
    /\ cli = None
    /\ \E path \in 0..(Len(dir) + 1) :
       \E strict, lenient \in BOOLEAN :
       \E max_memory \in {None, Some(4)} :
          cli' = Some([path |-> path, strict |-> strict, lenient |-> lenient,
                       max_memory |-> max_memory,
                       exit |-> ExitCode(RunValidateCommand(dir, path, strict, lenient,
                                                            max_memory))])
    /\ UNCHANGED <<base, depVars, stepVars, par, session, xref, mem, calls>>

NextCli == WriteCliFile \/ CallValidateCommand

SpecCli == InitCli /\ [][NextCli]_vars

\* the run validated one file that parses, or the directory
ValidatedFile ==
    /\ cli # None /\ cli[1].max_memory = None
    /\ cli[1].path \in 1..Len(dir)
    /\ dir[cli[1].path].syntax_ok

ValidatedDirectory == cli # None /\ cli[1].max_memory = None /\ cli[1].path = 0

----------------------------------------------------------------------------
(* A TypeDependencyGraph built by add_dependency calls *)

MaxGraphCalls == 3

GraphNames == {N_a, N_b, N_rec}

InitGraph ==
    /\ BaseIdle /\ StepIdle /\ ParIdle
    /\ ddoc = IdleDoc /\ graph = Some(NewTypeDependencyGraph)
    /\ cli = None /\ session = None /\ xref = None /\ mem = None /\ calls = <<>>

\* graph.add_dependency(from, to, dependency_type)
CallAddDependency ==
    /\ Len(calls) < MaxGraphCalls
    /\ \E from, to \in GraphNames : \E dependency_type \in {"FieldType", "Parameter"} :
          /\ graph' = Some(AddDependency(graph[1], from, to, dependency_type))
          /\ calls' = Append(calls, [from |-> from, to |-> to,
                                     dependency_type |-> dependency_type])
    /\ UNCHANGED <<base, ddoc, stepVars, par, cli, session, xref, mem>>

NextGraph == CallAddDependency

SpecGraph == InitGraph /\ [][NextGraph]_vars

\* C24: after any sequence of add_dependency calls, nodes holds no name
\* twice and holds both endpoints of every edge, edges holds exactly one
\* entry per call in call order, and get_dependencies(n) returns exactly the
\* edges whose from is n.
C24_GraphWellFormed ==
    LET g == graph[1]
    IN  /\ \A i, j \in 1..Len(g.nodes) : i # j => g.nodes[i] # g.nodes[j]
        /\ \A e \in 1..Len(g.edges) :
              Contains(g.nodes, g.edges[e].from) /\ Contains(g.nodes, g.edges[e].to)
        /\ g.edges = calls
        /\ \A n \in GraphNames :
              LET deps == GetDependencies(g, n)
                  idx == {e \in 1..Len(calls) : calls[e].from = n}
              IN  /\ Len(deps) = Cardinality(idx)
                  /\ \A k \in 1..Len(deps) : deps[k].from = n
                  /\ \A e \in idx : Contains(deps, calls[e])

\* the same dependency was added twice and a third edge shares its target
C24_WitnessRepeatedEndpoints ==
    /\ Len(calls) = 3
    /\ calls[1] = calls[2]
    /\ calls[3].to = calls[1].to /\ calls[3].from # calls[1].from
    /\ Len(graph[1].nodes) = 3

----------------------------------------------------------------------------
(* A session driven through validate_transition *)

MaxTransitions == 4

\* a session starts in Initializing; history holds the states it was in,
\* asked the last transition requested and whether it was accepted
InitSession ==
    /\ BaseIdle /\ DepIdle /\ StepIdle /\ ParIdle
    /\ cli = None /\ xref = None /\ mem = None /\ calls = <<>>
    /\ session = Some([state |-> "Initializing", history |-> <<"Initializing">>,
                       asked |-> None])

sessionFrame == <<base, depVars, stepVars, par, cli, xref, mem, calls>>

\* a transition to `to` is requested and validate_transition accepts it
AcceptTransition ==
    /\ Len(session[1].history) <= MaxTransitions
    /\ \E to \in SessionStates :
          /\ ValidateTransition(session[1].state, to)
          /\ session' = Some([state |-> to,
                              history |-> Append(session[1].history, to),
                              asked |-> Some([from |-> session[1].state, to |-> to,
                                              ok |-> TRUE])])
    /\ UNCHANGED sessionFrame

\* a transition to `to` is requested and validate_transition returns Err:
\* the session stays where it is
RejectTransition ==
    /\ Len(session[1].history) <= MaxTransitions
    /\ \E to \in SessionStates :
          /\ ~ValidateTransition(session[1].state, to)
          /\ session' = Some([session[1] EXCEPT
                                !.asked = Some([from |-> session[1].state, to |-> to,
                                                ok |-> FALSE])])
    /\ UNCHANGED sessionFrame

NextSession == AcceptTransition \/ RejectTransition

SpecSession == InitSession /\ [][NextSession]_vars

\* C25: validate_transition(from, to) succeeds for distinct states exactly
\* when to is listed by get_valid_next_states(from), and always when
\* from = to; so along accepted transitions a session that reached
\* Terminated stays Terminated and no session re-enters Initializing from
\* another state.
C25_TransitionsFollowNextStates ==
    /\ IsSome(session[1].asked) =>
          LET a == session[1].asked[1]
          IN  a.ok <=> (a.from = a.to \/ Contains(GetValidNextStates(a.from), a.to))
    /\ \A i \in 1..(Len(session[1].history) - 1) :
          LET h == session[1].history
          IN  /\ h[i] = "Terminated" => h[i + 1] = "Terminated"
              /\ h[i + 1] = "Initializing" => h[i] = "Initializing"

\* a session went through Error to Terminated and a request to leave
\* Terminated was refused
C25_WitnessTerminatedRefuses ==
    /\ session[1].state = "Terminated"
    /\ Contains(session[1].history, "Error")
    /\ IsSome(session[1].asked) /\ ~session[1].asked[1].ok
    /\ session[1].asked[1].from = "Terminated"

----------------------------------------------------------------------------
(* Specification SpecPackage: a file with a package declaration is parsed  *)
(* and the document validated under the three presets.                     *)

\* package.name.to_string(): namespace:name, followed by @version when the
\* declaration carries one (tests/integration.rs expects "test:sample@1.0.0")
PackageNameToString(decl) ==
    decl.namespace \o <<":">> \o decl.name
       \o (IF IsSome(decl.version) THEN <<"@">> \o decl.version[1] ELSE <<>>)

\* WitParser::parse_file: the package information of the document
ParsePackage(decl) ==
    [VD_ok EXCEPT !.package_name = PackageNameToString(decl),
                  !.package_version = decl.version]

PackageNamespaces == {<<"n","s">>, <<"m","y","-","n","s">>, <<"t","e","s","t">>}
PackageNames == {<<"p","k","g">>, <<"c","o","r","e","-","t","y","p","e","s">>, <<"a","1">>}
PackageVersions == {None, V_version, Some(<<"0",".","2",".","1">>)}
PackageDecls ==
    [namespace : PackageNamespaces, name : PackageNames, version : PackageVersions]

InitPackage ==
    /\ vdoc = IdleDoc /\ vresults = NoResults
    /\ report = NewValidationReport
    /\ dir = <<>> /\ batch = None
    /\ oldDoc = IdleDoc /\ newDoc = IdleDoc /\ steps = 0
    /\ compat = NewCompatibilityReport /\ checked = FALSE
    /\ ExtIdle

\* WitParser::parse_file on a file declaring `package ns:name[@X.Y.Z];`
ParsePackageFile ==
    /\ \E decl \in PackageDecls : vdoc' = ParsePackage(decl)
    /\ vresults' = NoResults
    /\ UNCHANGED <<ext, report, dir, batch, oldDoc, newDoc, steps, compat, checked>>

\* validate(&vdoc) of a parsed document
ValidateParsed == vdoc # IdleDoc /\ CallValidate

NextPackage == ParsePackageFile \/ ValidateParsed

SpecPackage == InitPackage /\ [][NextPackage]_vars

\* the document comes from a declaration with a version suffix
ParsedWithVersion ==
    \E decl \in PackageDecls : IsSome(decl.version) /\ vdoc = ParsePackage(decl)

\* C29: under the strict preset a document parsed from `package ns:name@X.Y.Z`
\* with valid namespace and name receives no INVALID_PACKAGE_NAME error.
C29_VersionSuffixNotChecked ==
    (ParsedWithVersion /\ IsSome(vresults["strict"])) =>
        \A i \in 1..Len(vresults["strict"][1].errors) :
            vresults["strict"][1].errors[i].code # "INVALID_PACKAGE_NAME"

----------------------------------------------------------------------------
(* Specification SpecMemory: threads call the component's create_allocation *)
(* and free_allocation on the process-wide VALIDATOR.  A call takes the     *)
(* mutex in get_validator and keeps the guard until it returns; the         *)
(* statements of a body are separate steps.                                 *)

MaxMemoryCalls == 4
MaxMemoryThreads == 2

MemoryThreads == 1..MaxMemoryThreads
MemorySessionIds == {"s1", "s2"}
\* zero, one byte, half of the v6r-medium limit, one byte over the limit
MemorySizes == {0, 1, 512 * 1024 * 1024, 1024 * 1024 * 1024 + 1}

IdleThread == [pc |-> "idle", req |-> None, before |-> None, last |-> None]

InitMemory ==
    /\ BaseIdle /\ DepIdle /\ StepIdle /\ ParIdle
    /\ cli = None /\ session = None /\ xref = None /\ calls = <<>>
    /\ mem = [validator |-> None, lock |-> 0, started |-> 0,
              threads |-> [t \in MemoryThreads |-> IdleThread]]

memoryFrame == <<base, depVars, stepVars, par, cli, session, xref, calls>>

\* the sessions of the validator (none before its lazy construction)
Sessions(m) == IF m.validator = None THEN <<>> ELSE m.validator[1].sessions

\* the call of thread t returns result: the guard is dropped
Returns(t, validator, result) ==
    mem' = [mem EXCEPT
               !.validator = Some(validator),
               !.lock = 0,
               !.threads[t] =
                   [IdleThread EXCEPT !.last =
                       Some([op |-> mem.threads[t].req[1].op, ok |-> result.ok,
                             unchanged |->
                                 validator.sessions = mem.threads[t].before[1]])]]

\* the body of thread t goes on at pc with the validator and request given
GoesOn(t, validator, pc, req) ==
    mem' = [mem EXCEPT !.validator = Some(validator),
                       !.threads[t].pc = pc,
                       !.threads[t].req = Some(req)]

\* a thread calls Component::create_allocation(session_id, size, purpose)
CallCreateAllocation(t) ==
    /\ mem.threads[t].pc = "idle" /\ mem.started < MaxMemoryCalls
    /\ \E session_id \in MemorySessionIds, size \in MemorySizes :
          mem' = [mem EXCEPT
                     !.started = @ + 1,
                     !.threads[t] =
                         [IdleThread EXCEPT
                             !.pc = "waiting",
                             !.req = Some([op |-> "create", session_id |-> session_id,
                                           size |-> size, purpose |-> "VmHeap"])]]
    /\ UNCHANGED memoryFrame

\* a thread calls Component::free_allocation("alloc_n")
CallFreeAllocation(t) ==
    /\ mem.threads[t].pc = "idle" /\ mem.started < MaxMemoryCalls
    /\ \E n \in 1..MaxMemoryCalls :
          mem' = [mem EXCEPT
                     !.started = @ + 1,
                     !.threads[t] =
                         [IdleThread EXCEPT
                             !.pc = "waiting",
                             !.req = Some([op |-> "free", allocation_id |-> n])]]
    /\ UNCHANGED memoryFrame

\* get_validator: VALIDATOR.lock(), and the validator is built on first use
GetValidator(t) ==
    /\ mem.threads[t].pc = "waiting" /\ mem.lock = 0
    /\ LET validator == IF mem.validator = None THEN NewMemoryValidator
                        ELSE mem.validator[1]
       IN  mem' = [mem EXCEPT
                      !.validator = Some(validator),
                      !.lock = t,
                      !.threads[t].pc =
                          IF mem.threads[t].req[1].op = "create" THEN "ensure" ELSE "find",
                      !.threads[t].before = Some(validator.sessions)]
    /\ UNCHANGED memoryFrame

\* create_allocation: the session is auto-initialized when it is unknown
EnsureSession(t) ==
    /\ mem.threads[t].pc = "ensure" /\ mem.lock = t
    /\ LET req == mem.threads[t].req[1]
           validator == mem.validator[1]
       IN  GoesOn(t, IF req.session_id \notin DOMAIN validator.sessions
                     THEN InitializeSession(validator, req.session_id, "v6r-medium")
                     ELSE validator,
                  "validate", req)
    /\ UNCHANGED memoryFrame

\* create_allocation: validate_allocation_request fails and the call returns
RejectRequest(t) ==
    /\ mem.threads[t].pc = "validate" /\ mem.lock = t
    /\ LET req == mem.threads[t].req[1]
           result == ValidateAllocationRequest(mem.validator[1], req.session_id,
                                               req.size, req.purpose)
       IN  /\ ~result.ok
           /\ Returns(t, mem.validator[1], Err(ValidationErrorToMemoryError(result.error)))
    /\ UNCHANGED memoryFrame

\* create_allocation: the request is valid and next_allocation_id is taken
AcceptRequest(t) ==
    /\ mem.threads[t].pc = "validate" /\ mem.lock = t
    /\ LET req == mem.threads[t].req[1]
           validator == mem.validator[1]
           result == ValidateAllocationRequest(validator, req.session_id,
                                               req.size, req.purpose)
       IN  /\ result.ok
           /\ GoesOn(t, [validator EXCEPT !.allocation_counter = @ + 1], "add_used",
                     [op |-> "create", session_id |-> req.session_id, size |-> req.size,
                      purpose |-> req.purpose,
                      allocation_id |-> validator.allocation_counter + 1])
    /\ UNCHANGED memoryFrame

\* create_allocation: session.used_memory += allocation.size.bytes
AddUsedMemory(t) ==
    /\ mem.threads[t].pc = "add_used" /\ mem.lock = t
    /\ LET req == mem.threads[t].req[1] IN
       GoesOn(t, [mem.validator[1] EXCEPT
                     !.sessions[req.session_id].used_memory = @ + req.size],
              "insert", req)
    /\ UNCHANGED memoryFrame

\* create_allocation: session.allocations.insert(..) and Ok(allocation)
InsertAllocation(t) ==
    /\ mem.threads[t].pc = "insert" /\ mem.lock = t
    /\ LET req == mem.threads[t].req[1] IN
       Returns(t, [mem.validator[1] EXCEPT
                      !.sessions[req.session_id].allocations =
                          [k \in DOMAIN @ \cup {req.allocation_id} |->
                              IF k = req.allocation_id THEN req.size ELSE @[k]]],
               Ok(req.allocation_id))
    /\ UNCHANGED memoryFrame

\* free_allocation: a session holds the allocation and it is removed
RemoveAllocation(t) ==
    /\ mem.threads[t].pc = "find" /\ mem.lock = t
    /\ LET req == mem.threads[t].req[1]
           validator == mem.validator[1]
       IN  \E s \in DOMAIN validator.sessions :
              /\ req.allocation_id \in DOMAIN validator.sessions[s].allocations
              /\ GoesOn(t, [validator EXCEPT
                               !.sessions[s].allocations =
                                   [k \in DOMAIN @ \ {req.allocation_id} |-> @[k]]],
                        "sub_used",
                        [op |-> "free", allocation_id |-> req.allocation_id,
                         found_session |-> s,
                         size |-> validator.sessions[s].allocations[req.allocation_id]])
    /\ UNCHANGED memoryFrame

\* free_allocation: used_memory = used_memory.saturating_sub(size), Ok(true)
SubUsedMemory(t) ==
    /\ mem.threads[t].pc = "sub_used" /\ mem.lock = t
    /\ LET req == mem.threads[t].req[1] IN
       Returns(t, [mem.validator[1] EXCEPT
                      !.sessions[req.found_session].used_memory =
                          SaturatingSub(@, req.size)],
               Ok(TRUE))
    /\ UNCHANGED memoryFrame

\* free_allocation: no session holds the allocation
AllocationNotFound(t) ==
    /\ mem.threads[t].pc = "find" /\ mem.lock = t
    /\ LET req == mem.threads[t].req[1]
           validator == mem.validator[1]
       IN  /\ \A s \in DOMAIN validator.sessions :
                 req.allocation_id \notin DOMAIN validator.sessions[s].allocations
           /\ Returns(t, validator, Err("InvalidAllocation"))
    /\ UNCHANGED memoryFrame

NextMemory ==
    \E t \in MemoryThreads :
        \/ CallCreateAllocation(t)
        \/ CallFreeAllocation(t)
        \/ GetValidator(t)
        \/ EnsureSession(t)
        \/ RejectRequest(t)
        \/ AcceptRequest(t)
        \/ AddUsedMemory(t)
        \/ InsertAllocation(t)
        \/ RemoveAllocation(t)
        \/ SubUsedMemory(t)
        \/ AllocationNotFound(t)

SpecMemory == InitMemory /\ [][NextMemory]_vars

\* no call holds the guard: every started body has run to its return
Quiescent == mem.lock = 0

\* used_memory is the sum of the sizes of the live allocations
UsedMatchesLive ==
    Quiescent =>
        \A s \in DOMAIN Sessions(mem) :
            Sessions(mem)[s].used_memory = SumSizes(Sessions(mem)[s].allocations)

\* used_memory never exceeds the hard limit
UsedWithinHardLimit ==
    \A s \in DOMAIN Sessions(mem) :
        Sessions(mem)[s].used_memory <= Sessions(mem)[s].hard_limit

\* what holds of the accounting whatever the interleaving
MemoryAccounting == UsedMatchesLive /\ UsedWithinHardLimit

\* a create_allocation that returned Err left the sessions as it found them
RejectedLeavesUnchanged ==
    \A t \in MemoryThreads :
        LET last == mem.threads[t].last IN
        (IsSome(last) /\ last[1].op = "create" /\ ~last[1].ok) => last[1].unchanged

\* C30: after any interleaving of concurrent create_allocation and
\* free_allocation calls each session's used_memory equals the sum of the
\* sizes of its live allocations and never exceeds the session's hard limit,
\* and a rejected create_allocation leaves the session state unchanged.
C30_AccountingAndAtomicReject ==
    UsedMatchesLive /\ UsedWithinHardLimit /\ RejectedLeavesUnchanged

====
